---------------------------- MODULE Spec2Model ----------------------------
(***************************************************************************)
(* A model of nat_tunnel: the rendez-vous server (src/index.ts), the       *)
(* multiplex framing of MultiplexSocket and the race dial of the client    *)
(* (src/client.ts).  Each part has its own specification over the shared   *)
(* variables (see "The specifications").                                  *)
(***************************************************************************)
EXTENDS Integers, Sequences, FiniteSets, TLC

(***************************************************************************)
(* Bounds of the model.                                                    *)
(***************************************************************************)
MaxSocks == 3
MaxConns == 4
MaxData == 4
MaxCalls == 2
MaxChunk == 4
MaxRaces == 2
MaxIntro == 1
Timeout == 2
MaxLocal == 2
MaxFrames == 3
MaxReads == 4
MaxUuid == 3
MaxAppChunks == 2

VARIABLES
  \* ---- rendez-vous server (src/index.ts) ----
  clientAOriginDescriptor,  \* ClientPair slot A (NoDescriptor when null)
  clientBOriginDescriptor,  \* ClientPair slot B
  nsock,                    \* number of connections accepted so far
  remote,                   \* remote[s]: (remoteAddress, remotePort) of socket s
  conn,                     \* conn[s]: "none" | "open" | "closed"
  ended,                    \* ended[s]: the server called s.end()
  listening,                \* listening[s]: the JSON 'data' listener is installed
  pipeTo,                   \* pipeTo[s]: destination of s.pipe(...), 0 when none
  written,                  \* written[s]: what the server wrote to s, in order
  received,                 \* received[s]: chunks that arrived on s, in order
  ndata,                    \* number of 'data' events the server has seen
  crashed,                  \* an exception escaped a handler: the process died
  lastEvt,                  \* the last handler that ran and what it did
  \* ---- MultiplexSocket (src/client.ts), one sender and its receiver ----
  sending,                  \* MultiplexSocket.sending of the sender
  messageQueue,             \* MultiplexSocket.messageQueue of the sender
  frames,                   \* the buffers the sender handed to this.write, in order
  inFlight,                 \* writes of the sender whose callback has not run yet
  calls,                    \* the multiplexWrite(id, data) calls made, in order
  nrecv,                    \* number of bytes of the stream the receiver has read
  buffer,                   \* MultiplexSocket.buffer of the receiver
  events,                   \* the 'multiplex-data' events the receiver emitted
  \* ---- one client process: rendez-vous driver and race dials ----
  socketToServer,           \* "connecting" | "connected" | "ended"
  socketLocalPort,          \* socketToServer.localPort of the current connection
  connectCallbacks,         \* relay flags of the pending connect callbacks
  registersSent,            \* relay flags of the register messages written
  dataListener,             \* handleDataFromServer is installed
  endListeners,             \* local ports captured by the race 'end' listeners
  nintro,                   \* number of tryConnectToPeer messages handled
  forwardedOn,              \* sockets forwardPortThroughSocket was called with
  nraces,                   \* number of race dials begun
  race,                     \* race[r]: the two attempts of race dial r
  \* ---- port forwarding over one peer socket ----
  sockets,                  \* the channel table: channel id -> local socket, 0 = no entry
  local,                    \* local[i]: the i-th local socket dialed or accepted
  messagesFor,              \* messagesFor[c]: payloads pending for channel c
  nlocal,                   \* number of local sockets created
  nframes,                  \* number of frames received
  inbound,                  \* inbound[c]: payloads received for channel c, in order
  outbound,                 \* the multiplexWrite calls made for local data
  fwdCrashed,               \* an uncaught 'error' event ended the process
  \* ---- two client processes talking to the server ----
  peers,                    \* peers[k]: the rendez-vous driver state of client k
  \* ---- Address.equals ----
  equalsCall,               \* the last call of Address.equals and its result
  \* ---- socketToServer as a MultiplexSocket, its receiving side ----
  relaySocket,              \* buffer, messageQueue, listeners; what arrived and what it did
  \* ---- two client processes forwarding over their peer connection ----
  tunnel                    \* per client: sockets, messagesFor; local sockets; frames in flight

serverVars == <<clientAOriginDescriptor, clientBOriginDescriptor, nsock, remote,
                conn, ended, listening, pipeTo, written, received, ndata,
                crashed, lastEvt>>

muxVars == <<sending, messageQueue, frames, inFlight, calls, nrecv, buffer, events>>

clientVars == <<socketToServer, socketLocalPort, connectCallbacks, registersSent,
                dataListener, endListeners, nintro, forwardedOn, nraces, race>>

fwdVars == <<sockets, local, messagesFor, nlocal, nframes, inbound, outbound,
             fwdCrashed>>

peerVars == <<peers>>

addrVars == <<equalsCall>>

ctlVars == <<relaySocket>>

tunnelVars == <<tunnel>>

vars == <<serverVars, muxVars, clientVars, fwdVars, peerVars, addrVars, ctlVars, tunnelVars>>

\* what the handlers of one part leave alone
nonServerVars == <<muxVars, clientVars, fwdVars, peerVars, addrVars, ctlVars, tunnelVars>>

nonMuxVars == <<serverVars, clientVars, fwdVars, peerVars, addrVars, ctlVars, tunnelVars>>

nonClientVars == <<serverVars, muxVars, fwdVars, peerVars, addrVars, ctlVars, tunnelVars>>

nonFwdVars == <<serverVars, muxVars, clientVars, peerVars, addrVars, ctlVars, tunnelVars>>

nonPeerVars == <<serverVars, muxVars, clientVars, fwdVars, addrVars, ctlVars, tunnelVars>>

nonAddrVars == <<serverVars, muxVars, clientVars, fwdVars, peerVars, ctlVars, tunnelVars>>

nonCtlVars == <<serverVars, muxVars, clientVars, fwdVars, peerVars, addrVars, tunnelVars>>

nonTunnelVars == <<serverVars, muxVars, clientVars, fwdVars, peerVars, addrVars, ctlVars>>

(***************************************************************************)
(* Address (src/unnamed/part_004, compiled as src/address.js).             *)
(***************************************************************************)
UndefHost == "<undefined>"
UndefPort == -1
Undefined == [undefined |-> TRUE]

Address(host, port) == [host |-> host, port |-> port]

\* !x of JavaScript for a host string and for a port number
FalsyHost(h) == h \in {"", UndefHost}

FalsyPort(p) == p \in {0, UndefPort}

AddressEquals_HostOnly(this, other) ==
  IF other = Undefined THEN FALSE
  ELSE other.host = this.host

\* other?.host === this.host && other.port === this.port
AddressEquals(this, other) ==
  IF other = Undefined THEN FALSE
  ELSE other.host = this.host /\ other.port = this.port

\* other undefined and this.host undefined: other.port is read of undefined
AddressEqualsThrows(this, other) == other = Undefined /\ this.host = UndefHost

(***************************************************************************)
(* Inputs of the server.                                                   *)
(***************************************************************************)
Socks == 1..MaxConns
\* the public endpoints clients connect from: two share a host, two a port
EndpointSeq == << Address("1.2.3.4", 5000), Address("1.2.3.4", 5001),
                  Address("9.8.7.6", 5000) >>

\* endpoints are taken into use in the order of EndpointSeq
InEndpointOrder(e) ==
  \A i \in 2..Len(EndpointSeq) :
    e = EndpointSeq[i] => \E s \in 1..nsock : remote[s] = EndpointSeq[i - 1]

Endpoints == {EndpointSeq[i] : i \in 1..Len(EndpointSeq)}

Register(relay, localAddress, localPort) ==
  [command |-> "register", relay |-> relay,
   localAddress |-> localAddress, localPort |-> localPort]

RegisterMsgs == {Register(FALSE, "10.0.0.1", 4000), Register(TRUE, "10.0.0.1", 4000),
                 Register(FALSE, UndefHost, 4000), Register(FALSE, "10.0.0.1", UndefPort)}
NotJson == [text |-> "not json"]
UnknownCommand == [command |-> "ping"]
\* the JSON text null, and what JSON.parse returns for it
JsonNull == [text |-> "null"]
Null == [null |-> TRUE]
Chunks == RegisterMsgs \cup {NotJson, UnknownCommand, JsonNull}
\* what a relayed client sends: bytes that are no JSON, bytes that are a command
RelayedChunks == {NotJson, Register(TRUE, "10.0.0.1", 4000)}

\* try { JSON.parse(data.toString()) } catch { {} }
ParseOrEmpty(chunk) ==
  IF chunk = NotJson THEN [command |-> "none"]
  ELSE IF chunk = JsonNull THEN Null
  ELSE chunk

(***************************************************************************)
(* OriginDescriptor and ClientPair.                                        *)
(***************************************************************************)
NoDescriptor == [socket |-> 0]

OriginDescriptor(socket, publicOrigin, privateOrigin) ==
  [socket |-> socket, public |-> publicOrigin, private |-> privateOrigin]

PublicOf(d) == IF d = NoDescriptor THEN Undefined ELSE d.public

Complete(a, b) == a # NoDescriptor /\ b # NoDescriptor

\* ClientPair.add without its test for an endpoint that is already registered
ClientPairAdd_NoDedup(a, b, d) ==
  IF FalsyHost(d.public.host) \/ FalsyPort(d.public.port)
       \/ FalsyHost(d.private.host) \/ FalsyPort(d.private.port)
    THEN [a |-> a, b |-> b, outcome |-> "throwIncomplete"]
  ELSE IF a = NoDescriptor THEN [a |-> d, b |-> b, outcome |-> "slotA"]
  ELSE IF b = NoDescriptor THEN [a |-> a, b |-> d, outcome |-> "slotB"]
  ELSE [a |-> a, b |-> b, outcome |-> "throwFull"]

\* the same with the idempotent branch falling through to the slots
ClientPairAdd_FallsThrough(a, b, d) ==
  IF FalsyHost(d.public.host) \/ FalsyPort(d.public.port)
       \/ FalsyHost(d.private.host) \/ FalsyPort(d.private.port)
    THEN [a |-> a, b |-> b, outcome |-> "throwIncomplete"]
  ELSE IF (AddressEquals(d.public, PublicOf(a)) \/ AddressEquals(d.public, PublicOf(b)))
          /\ b = NoDescriptor /\ a # NoDescriptor
    THEN [a |-> a, b |-> d, outcome |-> "already"]
  ELSE IF AddressEquals(d.public, PublicOf(a)) \/ AddressEquals(d.public, PublicOf(b))
    THEN [a |-> a, b |-> b, outcome |-> "already"]
  ELSE IF a = NoDescriptor THEN [a |-> d, b |-> b, outcome |-> "slotA"]
  ELSE IF b = NoDescriptor THEN [a |-> a, b |-> d, outcome |-> "slotB"]
  ELSE [a |-> a, b |-> b, outcome |-> "throwFull"]

\* add without the validation of the four fields
ClientPairAdd_NoValidation(a, b, d) ==
  IF AddressEquals(d.public, PublicOf(a)) \/ AddressEquals(d.public, PublicOf(b))
    THEN [a |-> a, b |-> b, outcome |-> "already"]
  ELSE IF a = NoDescriptor THEN [a |-> d, b |-> b, outcome |-> "slotA"]
  ELSE IF b = NoDescriptor THEN [a |-> a, b |-> d, outcome |-> "slotB"]
  ELSE [a |-> a, b |-> b, outcome |-> "throwFull"]

\* ClientPair.add: the slots after the call and how the call ended
ClientPairAdd(a, b, d) ==
  IF FalsyHost(d.public.host) \/ FalsyPort(d.public.port)
       \/ FalsyHost(d.private.host) \/ FalsyPort(d.private.port)
    THEN [a |-> a, b |-> b, outcome |-> "throwIncomplete"]
  ELSE IF AddressEquals(d.public, PublicOf(a)) \/ AddressEquals(d.public, PublicOf(b))
    THEN [a |-> a, b |-> b, outcome |-> "already"]
  ELSE IF a = NoDescriptor THEN [a |-> d, b |-> b, outcome |-> "slotA"]
  ELSE IF b = NoDescriptor THEN [a |-> a, b |-> d, outcome |-> "slotB"]
  ELSE [a |-> a, b |-> b, outcome |-> "throwFull"]

\* ClientPair.remove
ClientPairRemove_EmptiesBoth(a, b, publicOrigin) ==
  IF a # NoDescriptor /\ AddressEquals(publicOrigin, a.public)
    THEN [a |-> NoDescriptor, b |-> NoDescriptor, outcome |-> "removedA"]
  ELSE IF b # NoDescriptor /\ AddressEquals(publicOrigin, b.public)
    THEN [a |-> NoDescriptor, b |-> NoDescriptor, outcome |-> "removedB"]
  ELSE [a |-> a, b |-> b, outcome |-> "notFound"]

ClientPairRemove(a, b, publicOrigin) ==
  IF a # NoDescriptor /\ AddressEquals(publicOrigin, a.public)
    THEN [a |-> NoDescriptor, b |-> b, outcome |-> "removedA"]
  ELSE IF b # NoDescriptor /\ AddressEquals(publicOrigin, b.public)
    THEN [a |-> a, b |-> NoDescriptor, outcome |-> "removedB"]
  ELSE [a |-> a, b |-> b, outcome |-> "notFound"]

(***************************************************************************)
(* The socket calls a handler of the server makes, in the order it makes   *)
(* them, and their effect on the sockets.                                  *)
(***************************************************************************)
NoArg == [command |-> "none"]

Op(op, sock, arg) == [op |-> op, sock |-> sock, arg |-> arg]

TryConnectToPeer(name, peerName, peer) ==
  [command |-> "tryConnectToPeer", name |-> name, peerName |-> peerName,
   public |-> peer.public, private |-> peer.private]

InitiateRelayedCommunication(name, peerName) ==
  [command |-> "initiateRelayedCommunication", name |-> name, peerName |-> peerName]

\* ClientPair.clear
ClearOps(a, b) ==
  (IF a # NoDescriptor THEN <<Op("end", a.socket, NoArg)>> ELSE <<>>)
  \o (IF b # NoDescriptor THEN <<Op("end", b.socket, NoArg)>> ELSE <<>>)

\* the branch of the data handler taken when parsedData.relay is set
RelayOps(a, b) ==
  << Op("write", a.socket, InitiateRelayedCommunication("A", "B")),
     Op("write", b.socket, InitiateRelayedCommunication("B", "A")),
     Op("removeAllListeners", b.socket, NoArg),
     Op("removeAllListeners", a.socket, NoArg),
     Op("pipe", a.socket, [dst |-> b.socket]),
     Op("pipe", b.socket, [dst |-> a.socket]) >>

\* the branch of the data handler taken otherwise
TryConnectOps(a, b) ==
  << Op("write", a.socket, TryConnectToPeer("A", "B", b)),
     Op("write", b.socket, TryConnectToPeer("B", "A", a)) >>
  \o ClearOps(a, b)

SockState == [conn |-> conn, ended |-> ended, listening |-> listening,
              pipeTo |-> pipeTo, written |-> written, writeAfterEnd |-> FALSE]

\* one call on a net.Socket
ApplyOp(st, o) ==
  CASE o.op = "write" ->
         IF st.ended[o.sock] \/ st.conn[o.sock] # "open"
           THEN [st EXCEPT !.writeAfterEnd = TRUE]
           ELSE [st EXCEPT !.written[o.sock] = Append(@, o.arg)]
    [] o.op = "end" ->
         [st EXCEPT !.ended[o.sock] = TRUE,
                    !.pipeTo = [x \in Socks |-> IF @[x] = o.sock THEN 0 ELSE @[x]]]
    [] o.op = "removeAllListeners" ->
         [st EXCEPT !.listening[o.sock] = FALSE, !.pipeTo[o.sock] = 0]
    [] o.op = "pipe" ->
         [st EXCEPT !.pipeTo[o.sock] = o.arg.dst]

RECURSIVE ApplyOps(_, _)
ApplyOps(st, ops) ==
  IF ops = <<>> THEN st ELSE ApplyOps(ApplyOp(st, Head(ops)), Tail(ops))

\* what the data handler does after clientPair.add returned
BroadcastOps(a, b, relay) ==
  IF ~Complete(a, b) THEN <<>>
  ELSE IF relay THEN RelayOps(a, b)
  ELSE TryConnectOps(a, b)

\* the process dies on an uncaught exception: the kernel closes its sockets
Crash ==
  /\ crashed' = TRUE
  /\ conn' = [s \in Socks |-> IF conn[s] = "open" THEN "closed" ELSE conn[s]]

NoEvt == [kind |-> "none"]

(***************************************************************************)
(* The server's handlers.                                                  *)
(***************************************************************************)
\* createServer((c) => ...): a client connects from endpoint e
ConnectionHandler(e) ==
  /\ ~crashed
  /\ nsock + 1 \in Socks
  /\ \A s \in Socks : conn[s] = "open" => remote[s] # e
  /\ nsock' = nsock + 1
  /\ remote' = [remote EXCEPT ![nsock + 1] = e]
  /\ conn' = [conn EXCEPT ![nsock + 1] = "open"]
  /\ listening' = [listening EXCEPT ![nsock + 1] = TRUE]
  /\ lastEvt' = [kind |-> "connection", sock |-> nsock + 1]
  /\ UNCHANGED <<clientAOriginDescriptor, clientBOriginDescriptor, ended, pipeTo,
                 written, received, ndata, crashed>>
  /\ UNCHANGED nonServerVars

\* c.on('data', ...) of the connection handler
DataHandler(s, chunk) ==
  /\ ~crashed
  /\ conn[s] = "open"
  /\ listening[s]
  /\ ndata' = ndata + 1
  /\ LET parsedData == ParseOrEmpty(chunk)
         a == clientAOriginDescriptor
         b == clientBOriginDescriptor
     IN IF parsedData = Null
          \* parsedData.command throws a TypeError that nothing catches
          THEN /\ lastEvt' = [kind |-> "data", sock |-> s, chunk |-> chunk,
                              outcome |-> "throwTypeError", a |-> a, b |-> b,
                              ops |-> <<>>, writeAfterEnd |-> FALSE]
               /\ Crash
               /\ UNCHANGED <<clientAOriginDescriptor, clientBOriginDescriptor,
                              ended, listening, pipeTo, written>>
        ELSE IF parsedData.command # "register"
          THEN /\ lastEvt' = [kind |-> "data", sock |-> s, chunk |-> chunk,
                              outcome |-> "ignored", a |-> a, b |-> b,
                              ops |-> <<>>, writeAfterEnd |-> FALSE]
               /\ UNCHANGED <<clientAOriginDescriptor, clientBOriginDescriptor,
                              conn, ended, listening, pipeTo, written, crashed>>
          ELSE LET d == OriginDescriptor(s, remote[s],
                           Address(parsedData.localAddress, parsedData.localPort))
                   r == ClientPairAdd(a, b, d)
                   threw == r.outcome \in {"throwIncomplete", "throwFull"}
                   ops == IF threw THEN <<>> ELSE BroadcastOps(r.a, r.b, parsedData.relay)
                   st == ApplyOps(SockState, ops)
               IN /\ clientAOriginDescriptor' = r.a
                  /\ clientBOriginDescriptor' = r.b
                  /\ ended' = st.ended
                  /\ listening' = st.listening
                  /\ pipeTo' = st.pipeTo
                  /\ written' = st.written
                  /\ lastEvt' = [kind |-> "data", sock |-> s, chunk |-> chunk,
                                 outcome |-> r.outcome, a |-> a, b |-> b,
                                 ops |-> ops, writeAfterEnd |-> st.writeAfterEnd]
                  /\ IF threw \/ st.writeAfterEnd
                       THEN Crash
                       ELSE UNCHANGED <<conn, crashed>>
  /\ UNCHANGED <<nsock, remote, received>>
  /\ UNCHANGED nonServerVars

\* a connection from one of the few endpoints of EndpointSeq
ServerConnection(e) ==
  /\ nsock < MaxSocks
  /\ InEndpointOrder(e)
  /\ ConnectionHandler(e)

\* one of at most MaxData chunks arrives on a socket with the JSON listener
ServerData(s, chunk) ==
  /\ ndata < MaxData
  /\ DataHandler(s, chunk)

\* a chunk arrives on a socket that a.pipe(b) reads
ServerPipeData(s, chunk) ==
  /\ ~crashed
  /\ conn[s] = "open"
  /\ pipeTo[s] # 0
  /\ ndata < MaxData
  /\ ndata' = ndata + 1
  /\ received' = [received EXCEPT ![s] = Append(@, chunk)]
  /\ written' = [written EXCEPT ![pipeTo[s]] = Append(@, chunk)]
  /\ lastEvt' = [kind |-> "pipe", sock |-> s]
  /\ UNCHANGED <<clientAOriginDescriptor, clientBOriginDescriptor, nsock, remote,
                 conn, ended, listening, pipeTo, crashed>>
  /\ UNCHANGED nonServerVars

\* c.on('end', ...): the client's FIN arrives; the socket (allowHalfOpen is
\* off) ends its own side, and a pipe from it ends its destination
ServerEnd(s) ==
  /\ ~crashed
  /\ conn[s] = "open"
  /\ LET r == ClientPairRemove(clientAOriginDescriptor, clientBOriginDescriptor, remote[s])
         d == pipeTo[s]
     IN /\ clientAOriginDescriptor' = r.a
        /\ clientBOriginDescriptor' = r.b
        /\ ended' = [x \in Socks |-> ended[x] \/ x = s \/ x = d]
        /\ pipeTo' = [x \in Socks |-> IF x = s \/ pipeTo[x] \in {s, d} THEN 0 ELSE pipeTo[x]]
        /\ lastEvt' = [kind |-> "end", sock |-> s, outcome |-> r.outcome,
                       a |-> clientAOriginDescriptor, b |-> clientBOriginDescriptor]
  /\ conn' = [conn EXCEPT ![s] = "closed"]
  /\ UNCHANGED <<nsock, remote, listening, written, received, ndata, crashed>>
  /\ UNCHANGED nonServerVars

ServerIdle ==
  /\ clientAOriginDescriptor = NoDescriptor
  /\ clientBOriginDescriptor = NoDescriptor
  /\ nsock = 0
  /\ remote = [s \in Socks |-> Address(UndefHost, UndefPort)]
  /\ conn = [s \in Socks |-> "none"]
  /\ ended = [s \in Socks |-> FALSE]
  /\ listening = [s \in Socks |-> FALSE]
  /\ pipeTo = [s \in Socks |-> 0]
  /\ written = [s \in Socks |-> <<>>]
  /\ received = [s \in Socks |-> <<>>]
  /\ ndata = 0
  /\ crashed = FALSE
  /\ lastEvt = NoEvt

ServerNext ==
  \/ \E e \in Endpoints : ServerConnection(e)
  \/ \E s \in Socks, chunk \in Chunks : ServerData(s, chunk)
  \/ \E s \in Socks, chunk \in RelayedChunks : ServerPipeData(s, chunk)
  \/ \E s \in Socks : ServerEnd(s)

(***************************************************************************)
(* MultiplexSocket (src/client.ts).  A Buffer is a sequence of bytes and a *)
(* string a sequence of code points.                                       *)
(***************************************************************************)
maxBufferSizeDigits == 14
ChannelIdBytes == 36

Min(x, y) == IF x < y THEN x ELSE y
Max(x, y) == IF x > y THEN x ELSE y

RECURSIVE Flatten(_)
Flatten(ss) == IF ss = <<>> THEN <<>> ELSE Head(ss) \o Flatten(Tail(ss))

\* Buffer.from(string): the UTF-8 encoding
Utf8Char(c) ==
  IF c < 128 THEN <<c>>
  ELSE IF c < 2048 THEN <<192 + (c \div 64), 128 + (c % 64)>>
  ELSE <<224 + (c \div 4096), 128 + ((c \div 64) % 64), 128 + (c % 64)>>

RECURSIVE Utf8Encode(_)
Utf8Encode(str) ==
  IF str = <<>> THEN <<>> ELSE Utf8Char(Head(str)) \o Utf8Encode(Tail(str))

\* buffer.toString(): UTF-8 decoding; a byte that starts no sequence the
\* model's strings use decodes to U+FFFD
RECURSIVE Utf8DecodeFrom(_, _)
Utf8DecodeFrom(bytes, i) ==
  IF i > Len(bytes) THEN <<>>
  ELSE IF bytes[i] < 128 THEN <<bytes[i]>> \o Utf8DecodeFrom(bytes, i + 1)
  ELSE IF /\ bytes[i] \in 194..223
          /\ i + 1 <= Len(bytes)
          /\ bytes[i + 1] \in 128..191
    THEN <<(bytes[i] - 192) * 64 + (bytes[i + 1] - 128)>> \o Utf8DecodeFrom(bytes, i + 2)
  ELSE <<65533>> \o Utf8DecodeFrom(bytes, i + 1)

Utf8Decode(bytes) == Utf8DecodeFrom(bytes, 1)

\* Number.prototype.toString() of a length, as ASCII digits
RECURSIVE DecStr(_)
DecStr(n) == IF n < 10 THEN <<48 + n>> ELSE Append(DecStr(n \div 10), 48 + (n % 10))

\* rjust with a padding string of one character; throws when too long
Rjust_Spaces(stringToPad, targetLength, paddingChar) ==
  IF Len(stringToPad) > targetLength THEN [threw |-> TRUE, str |-> <<>>]
  ELSE [threw |-> FALSE,
        str |-> [i \in 1..(targetLength - Len(stringToPad)) |-> 32] \o stringToPad]

Rjust(stringToPad, targetLength, paddingChar) ==
  IF Len(stringToPad) > targetLength THEN [threw |-> TRUE, str |-> <<>>]
  ELSE [threw |-> FALSE,
        str |-> [i \in 1..(targetLength - Len(stringToPad)) |-> paddingChar] \o stringToPad]

\* parseInt(string, 10): white space, a sign, then the longest run of digits
IsSpace(c) == c \in {9, 10, 11, 12, 13, 32}
IsDigit(c) == c \in 48..57

\* the index of the first character at or after i that is no white space
RECURSIVE SkipSpaces(_, _)
SkipSpaces(str, i) ==
  IF i <= Len(str) /\ IsSpace(str[i]) THEN SkipSpaces(str, i + 1) ELSE i

\* the value of the run of digits that starts at i
RECURSIVE DigitsValue(_, _, _)
DigitsValue(str, i, acc) ==
  IF i <= Len(str) /\ IsDigit(str[i])
    THEN DigitsValue(str, i + 1, acc * 10 + (str[i] - 48))
    ELSE acc

ParseInt(str) ==
  LET i == SkipSpaces(str, 1)
      signed == i <= Len(str) /\ str[i] \in {43, 45}
      j == IF signed THEN i + 1 ELSE i
  IN IF j > Len(str) \/ ~IsDigit(str[j]) THEN [nan |-> TRUE, val |-> 0]
     ELSE [nan |-> FALSE,
           val |-> IF signed /\ str[i] = 45 THEN 0 - DigitsValue(str, j, 0)
                   ELSE DigitsValue(str, j, 0)]

\* buffer.subarray(start, end): indices from 0, a negative index counts from
\* the end, both are clamped, NaN is 0
Subarray(buf, start, end) ==
  LET len == Len(buf)
      s == IF start < 0 THEN Max(len + start, 0) ELSE Min(start, len)
      e == IF end < 0 THEN Max(len + end, 0) ELSE Min(end, len)
  IN IF e <= s THEN <<>> ELSE SubSeq(buf, s + 1, e)

MultiplexData(channelId, message) == [channelId |-> channelId, message |-> message]

\* parseInt's NaN is taken for a length of zero
RECURSIVE EmitMessagesFromBuffer_NaNIsZero(_)
EmitMessagesFromBuffer_NaNIsZero(buf) ==
  IF Len(buf) = 0 THEN [events |-> <<>>, buffer |-> buf]
  ELSE LET lengthAsBuffer == Subarray(buf, 0, maxBufferSizeDigits)
       IN IF Len(lengthAsBuffer) # maxBufferSizeDigits
            THEN [events |-> <<>>, buffer |-> buf]
            ELSE LET length == ParseInt(Utf8Decode(lengthAsBuffer)).val
                     message == Subarray(buf, maxBufferSizeDigits,
                                         length + maxBufferSizeDigits)
                 IN IF Len(message) = length
                      THEN LET rest == EmitMessagesFromBuffer_NaNIsZero(
                                         Subarray(buf, maxBufferSizeDigits + length,
                                                  Len(buf)))
                           IN [events |-> <<MultiplexData(
                                              Utf8Decode(Subarray(message, 0, ChannelIdBytes)),
                                              Subarray(message, ChannelIdBytes, Len(message)))>>
                                          \o rest.events,
                               buffer |-> rest.buffer]
                      ELSE [events |-> <<>>, buffer |-> buf]

\* the last byte of an emitted frame is left in the buffer
RECURSIVE EmitMessagesFromBuffer_LeavesLastByte(_)
EmitMessagesFromBuffer_LeavesLastByte(buf) ==
  IF Len(buf) = 0 THEN [events |-> <<>>, buffer |-> buf]
  ELSE LET lengthAsBuffer == Subarray(buf, 0, maxBufferSizeDigits)
       IN IF Len(lengthAsBuffer) # maxBufferSizeDigits
            THEN [events |-> <<>>, buffer |-> buf]
            ELSE LET length == ParseInt(Utf8Decode(lengthAsBuffer))
                     message == IF length.nan THEN Subarray(buf, maxBufferSizeDigits, 0)
                                ELSE Subarray(buf, maxBufferSizeDigits,
                                              length.val + maxBufferSizeDigits)
                 IN IF ~length.nan /\ Len(message) = length.val
                      THEN LET rest == EmitMessagesFromBuffer_LeavesLastByte(
                                         Subarray(buf, maxBufferSizeDigits + length.val - 1,
                                                  Len(buf)))
                           IN [events |-> <<MultiplexData(
                                              Utf8Decode(Subarray(message, 0, ChannelIdBytes)),
                                              Subarray(message, ChannelIdBytes, Len(message)))>>
                                          \o rest.events,
                               buffer |-> rest.buffer]
                      ELSE [events |-> <<>>, buffer |-> buf]

\* MultiplexSocket.emitMessagesFromBuffer: the events emitted, in order, and
\* the buffer returned
RECURSIVE EmitMessagesFromBuffer(_)
EmitMessagesFromBuffer(buf) ==
  IF Len(buf) = 0 THEN [events |-> <<>>, buffer |-> buf]
  ELSE LET lengthAsBuffer == Subarray(buf, 0, maxBufferSizeDigits)
       IN IF Len(lengthAsBuffer) # maxBufferSizeDigits
            THEN [events |-> <<>>, buffer |-> buf]
            ELSE LET length == ParseInt(Utf8Decode(lengthAsBuffer))
                     message == IF length.nan THEN Subarray(buf, maxBufferSizeDigits, 0)
                                ELSE Subarray(buf, maxBufferSizeDigits,
                                              length.val + maxBufferSizeDigits)
                 IN IF ~length.nan /\ Len(message) = length.val
                      THEN LET rest == EmitMessagesFromBuffer(
                                         Subarray(buf, maxBufferSizeDigits + length.val,
                                                  Len(buf)))
                           IN [events |-> <<MultiplexData(
                                              Utf8Decode(Subarray(message, 0, ChannelIdBytes)),
                                              Subarray(message, ChannelIdBytes, Len(message)))>>
                                          \o rest.events,
                               buffer |-> rest.buffer]
                      ELSE [events |-> <<>>, buffer |-> buf]

\* the 'data' listener of the constructor, on the receiver's buffer
MuxOnData_ForgetsRemainder(buf, data) == EmitMessagesFromBuffer(data)

MuxOnData(buf, data) == EmitMessagesFromBuffer(buf \o data)

\* MultiplexSocket.multiplexWrite on [sending, messageQueue, frames]; a call
\* without arguments (the write callback's) is the call with channelId <<>>
MuxState == [sending |-> sending, messageQueue |-> messageQueue, frames |-> frames]

MultiplexWrite_DropsWhenSending(st, channelId, data) ==
  LET channelIdAndData == IF channelId = <<>> THEN <<>> ELSE Utf8Encode(channelId) \o data
  IN IF st.sending THEN st
     ELSE LET message == IF channelIdAndData # <<>> THEN channelIdAndData
                         ELSE IF st.messageQueue # <<>> THEN Head(st.messageQueue)
                         ELSE <<>>
              queue == IF channelIdAndData = <<>> /\ st.messageQueue # <<>>
                         THEN Tail(st.messageQueue) ELSE st.messageQueue
          IN IF message = <<>> THEN st
             ELSE [sending |-> TRUE, messageQueue |-> queue,
                   frames |-> Append(st.frames,
                       Rjust(DecStr(Len(message)), maxBufferSizeDigits, 48).str \o message)]

MultiplexWrite_CountsCharacters(st, channelId, data) ==
  LET channelIdAndData == IF channelId = <<>> THEN <<>> ELSE Utf8Encode(channelId) \o data
  IN IF st.sending
       THEN IF channelIdAndData # <<>>
              THEN [st EXCEPT !.messageQueue = Append(@, channelIdAndData)]
              ELSE st
     ELSE LET message == IF channelIdAndData # <<>> THEN channelIdAndData
                         ELSE IF st.messageQueue # <<>> THEN Head(st.messageQueue)
                         ELSE <<>>
              queue == IF channelIdAndData = <<>> /\ st.messageQueue # <<>>
                         THEN Tail(st.messageQueue) ELSE st.messageQueue
          IN IF message = <<>> THEN st
             ELSE [sending |-> TRUE, messageQueue |-> queue,
                   frames |-> Append(st.frames,
                       Rjust(DecStr(Len(Utf8Decode(message))), maxBufferSizeDigits, 48).str
                         \o message)]

\* the call without arguments (the write callback's) does not take the next
\* message from the queue
MultiplexWrite_CallbackDoesNotDrain(st, channelId, data) ==
  LET channelIdAndData == IF channelId = <<>> THEN <<>> ELSE Utf8Encode(channelId) \o data
  IN IF st.sending
       THEN IF channelIdAndData # <<>>
              THEN [st EXCEPT !.messageQueue = Append(@, channelIdAndData)]
              ELSE st
     ELSE IF channelIdAndData = <<>> THEN st
     ELSE [sending |-> TRUE, messageQueue |-> st.messageQueue,
           frames |-> Append(st.frames,
               Rjust(DecStr(Len(channelIdAndData)), maxBufferSizeDigits, 48).str
                 \o channelIdAndData)]

\* a write is started although the previous one has not completed
MultiplexWrite_WritesWhileSending(st, channelId, data) ==
  LET channelIdAndData == IF channelId = <<>> THEN <<>> ELSE Utf8Encode(channelId) \o data
      message == IF channelIdAndData # <<>> THEN channelIdAndData
                 ELSE IF st.messageQueue # <<>> THEN Head(st.messageQueue)
                 ELSE <<>>
      queue == IF channelIdAndData = <<>> /\ st.messageQueue # <<>>
                 THEN Tail(st.messageQueue) ELSE st.messageQueue
  IN IF message = <<>> THEN st
     ELSE [sending |-> TRUE, messageQueue |-> queue,
           frames |-> Append(st.frames,
               Rjust(DecStr(Len(message)), maxBufferSizeDigits, 48).str \o message)]

MultiplexWrite(st, channelId, data) ==
  LET channelIdAndData == IF channelId = <<>> THEN <<>> ELSE Utf8Encode(channelId) \o data
  IN IF st.sending
       THEN IF channelIdAndData # <<>>
              THEN [st EXCEPT !.messageQueue = Append(@, channelIdAndData)]
              ELSE st
     ELSE LET message == IF channelIdAndData # <<>> THEN channelIdAndData
                         ELSE IF st.messageQueue # <<>> THEN Head(st.messageQueue)
                         ELSE <<>>
              queue == IF channelIdAndData = <<>> /\ st.messageQueue # <<>>
                         THEN Tail(st.messageQueue) ELSE st.messageQueue
          IN IF message = <<>> THEN st
             ELSE [sending |-> TRUE, messageQueue |-> queue,
                   frames |-> Append(st.frames,
                       Rjust(DecStr(Len(message)), maxBufferSizeDigits, 48).str \o message)]

(***************************************************************************)
(* Inputs of the multiplex channel: channel ids of 36 bytes (a UUID in its *)
(* 8-4-4-4-12 form; a string with a two-byte character) and payloads that  *)
(* hold digits.                                                            *)
(***************************************************************************)
Uuid(c) == [i \in 1..36 |-> IF i \in {9, 14, 19, 24} THEN 45
                            ELSE IF i = 15 THEN 52 ELSE c]

TwoByteId == [i \in 1..35 |-> IF i = 1 THEN 233 ELSE 48]

ChannelIds == {Uuid(97), TwoByteId}

Payloads == {<<>>, <<49, 48>>}

\* the bytes the sender has put on the socket, and those still on their way
Stream == Flatten(frames)

(***************************************************************************)
(* The steps of the multiplex channel.                                     *)
(***************************************************************************)
\* a caller (a local socket's 'data' listener) calls multiplexWrite(id, data)
MuxCall(channelId, data) ==
  /\ Len(calls) < MaxCalls
  /\ calls' = Append(calls, MultiplexData(channelId, data))
  /\ LET st == MultiplexWrite(MuxState, channelId, data)
     IN /\ sending' = st.sending
        /\ messageQueue' = st.messageQueue
        /\ frames' = st.frames
        /\ inFlight' = inFlight + (Len(st.frames) - Len(frames))
  /\ UNCHANGED <<nrecv, buffer, events>>
  /\ UNCHANGED nonMuxVars

\* the callback of a write that completed: sending = false;
\* this.multiplexWrite()
MuxWriteCallback ==
  /\ inFlight > 0
  /\ LET st == MultiplexWrite([MuxState EXCEPT !.sending = FALSE], <<>>, <<>>)
     IN /\ sending' = st.sending
        /\ messageQueue' = st.messageQueue
        /\ frames' = st.frames
        /\ inFlight' = inFlight - 1 + (Len(st.frames) - Len(frames))
  /\ UNCHANGED <<calls, nrecv, buffer, events>>
  /\ UNCHANGED nonMuxVars

\* a 'data' event carries 1..MaxChunk bytes, or all the bytes on their way
ChunkSizes == (1..MaxChunk) \cup {Len(Stream) - nrecv}

\* the next k bytes of the stream arrive at the receiver as one 'data' event
MuxReceive(k) ==
  /\ k >= 1
  /\ nrecv + k <= Len(Stream)
  /\ nrecv' = nrecv + k
  /\ LET r == MuxOnData(buffer, SubSeq(Stream, nrecv + 1, nrecv + k))
     IN /\ buffer' = r.buffer
        /\ events' = events \o r.events
  /\ UNCHANGED <<sending, messageQueue, frames, inFlight, calls>>
  /\ UNCHANGED nonMuxVars

MuxIdle ==
  /\ sending = FALSE
  /\ messageQueue = <<>>
  /\ frames = <<>>
  /\ inFlight = 0
  /\ calls = <<>>
  /\ nrecv = 0
  /\ buffer = <<>>
  /\ events = <<>>

MuxNext ==
  \/ \E channelId \in ChannelIds, data \in Payloads : MuxCall(channelId, data)
  \/ MuxWriteCallback
  \/ \E k \in ChunkSizes : MuxReceive(k)

(***************************************************************************)
(* The client's rendez-vous driver and race dial (src/client.ts).          *)
(***************************************************************************)
Nets == {"private", "public"}

Other(net) == IF net = "private" THEN "public" ELSE "private"

Races == 1..MaxRaces

\* a MultiplexSocket made by setupSocketToPeer, and socketToServer
PeerSocket(r, net) == [race |-> r, net |-> net]
ServerSocket == [race |-> 0, net |-> "server"]

NewAttempt_EphemeralPort(port) ==
  [sock |-> "connecting", executionCount |-> 0, promise |-> "pending",
   listeners |-> TRUE, localPort |-> 0]

\* setupSocketToPeer just after socketToPeer.connect(socketToPeerOptions)
NewAttempt(port) ==
  [sock |-> "connecting", executionCount |-> 0, promise |-> "pending",
   listeners |-> TRUE, localPort |-> port]

NoAttempt ==
  [sock |-> "none", executionCount |-> 0, promise |-> "pending",
   listeners |-> FALSE, localPort |-> 0]

\* the body of the 'end' listener up to its await: two abort controllers and
\* the two attempts
NewRace(port) ==
  [att |-> [n \in Nets |-> NewAttempt(port)],
   aborted |-> [n \in Nets |-> FALSE],
   outcome |-> "pending", winner |-> "none", first |-> "none"]

NoRace ==
  [att |-> [n \in Nets |-> NoAttempt],
   aborted |-> [n \in Nets |-> FALSE],
   outcome |-> "unused", winner |-> "none", first |-> "none"]

\* socketToPeer.on('connect'): abort the other attempt unless aborted itself,
\* and resolve
OnPeerConnect(rc, net) ==
  [rc EXCEPT !.aborted = IF rc.aborted[net] THEN @ ELSE [@ EXCEPT ![Other(net)] = TRUE],
             !.att[net].sock = "connected",
             !.att[net].promise = IF @ = "pending" THEN "fulfilled" ELSE @,
             !.first = IF @ = "none" THEN net ELSE @]

\* the retry is scheduled again after the limit: the attempt never gives up
OnPeerError_RetriesForever(rc, net) ==
  IF rc.aborted[net]
    THEN [rc EXCEPT !.att[net].sock = "closed",
                    !.att[net].promise = IF @ = "pending" THEN "rejected" ELSE @]
  ELSE [rc EXCEPT !.att[net].sock = "waiting"]

OnPeerError_OneRetryMore(rc, net) ==
  IF rc.aborted[net]
    THEN [rc EXCEPT !.att[net].sock = "closed",
                    !.att[net].promise = IF @ = "pending" THEN "rejected" ELSE @]
  ELSE IF rc.att[net].executionCount > Timeout
    THEN [rc EXCEPT !.att[net].sock = "destroyed",
                    !.att[net].listeners = FALSE,
                    !.att[net].promise = IF @ = "pending" THEN "rejected" ELSE @]
  ELSE [rc EXCEPT !.att[net].sock = "waiting",
                  !.att[net].executionCount = @ + 1]

\* socketToPeer.on('error') after a failed connect: reject when aborted, give
\* up (destroy, reject) when limitExecutionCount throws, else wait 1000 ms
OnPeerError(rc, net) ==
  IF rc.aborted[net]
    THEN [rc EXCEPT !.att[net].sock = "closed",
                    !.att[net].promise = IF @ = "pending" THEN "rejected" ELSE @]
  ELSE IF rc.att[net].executionCount >= Timeout
    THEN [rc EXCEPT !.att[net].sock = "destroyed",
                    !.att[net].listeners = FALSE,
                    !.att[net].promise = IF @ = "pending" THEN "rejected" ELSE @]
  ELSE [rc EXCEPT !.att[net].sock = "waiting",
                  !.att[net].executionCount = @ + 1]

\* the timer of throttle fires: socketToPeer.connect(socketToPeerOptions)
OnRetryTimer(rc, net) == [rc EXCEPT !.att[net].sock = "connecting"]

BothSettled(rc) == \A n \in Nets : rc.att[n].promise # "pending"

\* the callback of Promise.allSettled: destroy every fulfilled socket that is
\* not the one Promise.any returned
DiscardLosers_KeepsThem(rc) == rc

DiscardLosers(rc) ==
  IF rc.outcome = "won" /\ BothSettled(rc)
    THEN [rc EXCEPT !.att = [n \in Nets |->
            IF rc.att[n].promise = "fulfilled" /\ n # rc.winner
              THEN [rc.att[n] EXCEPT !.sock = "destroyed", !.listeners = FALSE]
              ELSE rc.att[n]]]
    ELSE rc

SettleRace_FailsOnFirstRejection(rc) ==
  IF rc.outcome # "pending" THEN DiscardLosers(rc)
  ELSE IF \E n \in Nets : rc.att[n].promise = "rejected"
    THEN [rc EXCEPT !.outcome = "failed"]
  ELSE IF \E n \in Nets : rc.att[n].promise = "fulfilled"
    THEN DiscardLosers([rc EXCEPT !.outcome = "won",
                          !.winner = CHOOSE n \in Nets : rc.att[n].promise = "fulfilled"])
  ELSE rc

\* await Promise.any([socketToPrivatePeer, socketToPublicPeer]) once a promise
\* has settled: the first fulfilled promise wins, two rejections fail the race
SettleRace(rc) ==
  IF rc.outcome # "pending" THEN DiscardLosers(rc)
  ELSE IF \E n \in Nets : rc.att[n].promise = "fulfilled"
    THEN DiscardLosers([rc EXCEPT !.outcome = "won",
                          !.winner = CHOOSE n \in Nets : rc.att[n].promise = "fulfilled"])
  ELSE IF \A n \in Nets : rc.att[n].promise = "rejected"
    THEN [rc EXCEPT !.outcome = "failed"]
  ELSE rc

\* what the continuation of the await does with the settled race: forwarding
\* on the winner, or socketToServer.connect with a callback that registers
\* with relay: true (connect registers its callback with once('connect')
\* whatever state the socket is in)
AfterRaceEvent(r, rc) ==
  LET settled == SettleRace(rc)
      won == race[r].outcome = "pending" /\ settled.outcome = "won"
      failed == race[r].outcome = "pending" /\ settled.outcome = "failed"
  IN /\ race' = [race EXCEPT ![r] = settled]
     \* eventEmitter.emit('socketReadyForPortForwarding', socketToPeer)
     /\ forwardedOn' = IF won THEN Append(forwardedOn, PeerSocket(r, settled.winner))
                       ELSE forwardedOn
     \* socketToServer.connect(..., () => write register with relay: true)
     /\ socketToServer' = IF failed THEN "connecting" ELSE socketToServer
     /\ connectCallbacks' = IF failed THEN Append(connectCallbacks, TRUE)
                            ELSE connectCallbacks

\* the connect callback of socketToServer: write the register message
ClientConnected ==
  /\ socketToServer = "connecting"
  /\ socketToServer' = "connected"
  /\ socketLocalPort' = socketLocalPort + 1
  /\ registersSent' = registersSent \o connectCallbacks
  /\ connectCallbacks' = <<>>
  /\ UNCHANGED <<dataListener, endListeners, nintro, forwardedOn, nraces, race>>
  /\ UNCHANGED nonClientVars

\* handleDataFromServer on a tryConnectToPeer message
ClientTryConnectToPeer ==
  /\ socketToServer = "connected"
  /\ dataListener
  /\ nintro < MaxIntro
  /\ nintro' = nintro + 1
  /\ endListeners' = Append(endListeners, socketLocalPort)
  /\ UNCHANGED <<socketToServer, socketLocalPort, registersSent, connectCallbacks,
                 dataListener, forwardedOn, nraces, race>>
  /\ UNCHANGED nonClientVars

\* handleDataFromServer on an initiateRelayedCommunication message
ClientInitiateRelayedCommunication ==
  /\ socketToServer = "connected"
  /\ dataListener
  /\ dataListener' = FALSE
  /\ forwardedOn' = Append(forwardedOn, ServerSocket)
  /\ UNCHANGED <<socketToServer, socketLocalPort, registersSent, connectCallbacks,
                 endListeners, nintro, nraces, race>>
  /\ UNCHANGED nonClientVars

\* the 'end' event of socketToServer: every listener that a tryConnectToPeer
\* registered starts a race from the local port it captured
ClientServerEnd ==
  /\ socketToServer = "connected"
  /\ nraces + Len(endListeners) <= MaxRaces
  /\ socketToServer' = "ended"
  /\ nraces' = nraces + Len(endListeners)
  /\ race' = [r \in Races |->
                IF r > nraces /\ r <= nraces + Len(endListeners)
                  THEN NewRace(endListeners[r - nraces])
                  ELSE race[r]]
  /\ UNCHANGED <<socketLocalPort, registersSent, connectCallbacks, dataListener,
                 endListeners, nintro, forwardedOn>>
  /\ UNCHANGED nonClientVars

\* the 'connect' event of an attempt's socket
PeerConnect(r, net) ==
  /\ race[r].att[net].sock = "connecting"
  /\ AfterRaceEvent(r, OnPeerConnect(race[r], net))
  /\ UNCHANGED <<socketLocalPort, registersSent, dataListener, endListeners, nintro, nraces>>
  /\ UNCHANGED nonClientVars

\* the 'error' event of an attempt's socket whose connect failed (the
\* network input here is the outcome of each connect())
PeerError(r, net) ==
  /\ race[r].att[net].sock = "connecting"
  /\ AfterRaceEvent(r, OnPeerError(race[r], net))
  /\ UNCHANGED <<socketLocalPort, registersSent, dataListener, endListeners, nintro, nraces>>
  /\ UNCHANGED nonClientVars

\* the 1000 ms timer of an attempt's retry
PeerRetryTimer(r, net) ==
  /\ race[r].att[net].sock = "waiting"
  /\ race' = [race EXCEPT ![r] = OnRetryTimer(race[r], net)]
  /\ UNCHANGED <<socketToServer, socketLocalPort, registersSent, connectCallbacks,
                 dataListener, endListeners, nintro, forwardedOn, nraces>>
  /\ UNCHANGED nonClientVars

ClientIdle ==
  /\ socketToServer = "connecting"
  /\ socketLocalPort = 0
  /\ registersSent = <<>>
  /\ connectCallbacks = <<FALSE>>
  /\ dataListener = TRUE
  /\ endListeners = <<>>
  /\ nintro = 0
  /\ forwardedOn = <<>>
  /\ nraces = 0
  /\ race = [r \in Races |-> NoRace]

ClientNext ==
  \/ ClientConnected
  \/ ClientTryConnectToPeer
  \/ ClientInitiateRelayedCommunication
  \/ ClientServerEnd
  \/ \E r \in Races, net \in Nets : PeerConnect(r, net)
  \/ \E r \in Races, net \in Nets : PeerError(r, net)
  \/ \E r \in Races, net \in Nets : PeerRetryTimer(r, net)

(***************************************************************************)
(* Port forwarding over one peer socket: forwardPortThroughSocket          *)
(* (src/client.ts).  Inbound payloads are numbered in the order their      *)
(* frames were received.                                                   *)
(***************************************************************************)
\* as many channel ids as local sockets
Channels == 1..MaxLocal

LocalIds == 1..MaxLocal

NoLocal ==
  [kind |-> "none", readyState |-> "closed", channel |-> 0, written |-> <<>>,
   drains |-> 0, closeEmitted |-> FALSE]

\* createConnection(portToForward), stored under the frame's channel id
DialedSocket(channelId) ==
  [kind |-> "dialed", readyState |-> "opening", channel |-> channelId,
   written |-> <<>>, drains |-> 0, closeEmitted |-> FALSE]

\* a socket accepted by the listener on portToForward, stored under a new uuid
AcceptedSocket(channelId) ==
  [kind |-> "accepted", readyState |-> "open", channel |-> channelId,
   written |-> <<>>, drains |-> 0, closeEmitted |-> FALSE]

RECURSIVE Reverse(_)
Reverse(s) == IF s = <<>> THEN <<>> ELSE Append(Reverse(Tail(s)), Head(s))

\* messagesFor[channelId].forEach((m) => sockets[channelId].write(m))
Drain_LastFirst(queue) == Reverse(queue)

\* the first pending payload is not written
Drain_SkipsFirst(queue) == Tail(queue)

Drain(queue) == queue

\* sockets[channelId] as the multiplex-data handler reads it
LocalSocketFor_FirstEntry(table, channelId) ==
  table[CHOOSE c \in Channels : table[c] # 0 /\ \A d \in Channels : table[d] # 0 => c <= d]

LocalSocketFor(table, channelId) == table[channelId]

\* ['writeOnly', 'open'].includes(sockets[channelId].readyState)
Writable(sock) == sock.readyState \in {"open", "writeOnly"}

\* a socket is dialed for every frame, whether or not the table has an entry
OnMultiplexData_DialsEveryFrame(channelId, message) ==
  LET id == nlocal + 1
      table == [sockets EXCEPT ![channelId] = id]
      socks == [local EXCEPT ![id] = DialedSocket(channelId)]
  IN /\ nlocal < MaxLocal
     /\ sockets' = table
     /\ nlocal' = nlocal + 1
     /\ local' = socks
     /\ messagesFor' = [messagesFor EXCEPT ![channelId] = Append(@, message)]

\* socketToPeer.on('multiplex-data', (channelId, message) => ...)
OnMultiplexData(channelId, message) ==
  LET dial == sockets[channelId] = 0
      id == IF dial THEN nlocal + 1 ELSE sockets[channelId]
      table == IF dial THEN [sockets EXCEPT ![channelId] = id] ELSE sockets
      socks == IF dial THEN [local EXCEPT ![id] = DialedSocket(channelId)] ELSE local
      target == LocalSocketFor(table, channelId)
  IN /\ dial => nlocal < MaxLocal
     /\ sockets' = table
     /\ nlocal' = IF dial THEN nlocal + 1 ELSE nlocal
     /\ IF Writable(socks[id])
          THEN /\ local' = [socks EXCEPT ![target].written = Append(@, message)]
               /\ UNCHANGED messagesFor
          ELSE /\ local' = socks
               /\ messagesFor' = [messagesFor EXCEPT ![channelId] = Append(@, message)]

\* a frame for some channel is received on the peer socket
FwdMultiplexData(channelId) ==
  /\ ~fwdCrashed
  /\ nframes + Len(outbound) < MaxFrames
  /\ nframes' = nframes + 1
  /\ inbound' = [inbound EXCEPT ![channelId] = Append(@, nframes + 1)]
  /\ OnMultiplexData(channelId, nframes + 1)
  /\ UNCHANGED <<outbound, fwdCrashed>>
  /\ UNCHANGED nonFwdVars

\* the 'ready' event of a dialed socket (emitted with 'connect', when its
\* readyState has become 'open'): drain and delete messagesFor[channelId]
LocalReady(id) ==
  /\ ~fwdCrashed
  /\ local[id].kind = "dialed"
  /\ local[id].readyState = "opening"
  /\ LET channelId == local[id].channel
         target == sockets[channelId]
         opened == [local EXCEPT ![id].readyState = "open"]
     IN IF messagesFor[channelId] # <<>>
          THEN /\ local' = [opened EXCEPT
                              ![target].written = @ \o Drain(messagesFor[channelId]),
                              ![id].drains = @ + 1]
               /\ messagesFor' = [messagesFor EXCEPT ![channelId] = <<>>]
          ELSE /\ local' = opened
               /\ UNCHANGED messagesFor
  /\ UNCHANGED <<sockets, nlocal, nframes, inbound, outbound, fwdCrashed>>
  /\ UNCHANGED nonFwdVars

\* the 'error' event of a dialed socket whose connect failed: the socket has
\* no 'error' listener, so the event is thrown and ends the process
LocalConnectError(id) ==
  /\ ~fwdCrashed
  /\ local[id].kind = "dialed"
  /\ local[id].readyState = "opening"
  /\ fwdCrashed' = TRUE
  /\ local' = [i \in LocalIds |->
                 IF local[i].kind = "none" THEN local[i]
                 ELSE [local[i] EXCEPT !.readyState = "closed"]]
  /\ UNCHANGED <<sockets, messagesFor, nlocal, nframes, inbound, outbound>>
  /\ UNCHANGED nonFwdVars

\* createServer((localSocketToServer) => ...): a local application connects
\* and the socket is stored under a channel id from randomUUID()
LocalAccept(channelId) ==
  /\ ~fwdCrashed
  /\ nlocal < MaxLocal
  /\ sockets[channelId] = 0
  /\ inbound[channelId] = <<>>
  /\ \A i \in LocalIds : local[i].channel # channelId
  /\ nlocal' = nlocal + 1
  /\ sockets' = [sockets EXCEPT ![channelId] = nlocal + 1]
  /\ local' = [local EXCEPT ![nlocal + 1] = AcceptedSocket(channelId)]
  /\ UNCHANGED <<messagesFor, nframes, inbound, outbound, fwdCrashed>>
  /\ UNCHANGED nonFwdVars

\* the frame is sent under another channel id than the socket's
LocalData_OtherChannelId(id) ==
  /\ ~fwdCrashed
  /\ local[id].readyState = "open"
  /\ nframes + Len(outbound) < MaxFrames
  /\ outbound' = Append(outbound,
                        [channel |-> (local[id].channel % MaxLocal) + 1, socket |-> id])
  /\ UNCHANGED <<sockets, local, messagesFor, nlocal, nframes, inbound, fwdCrashed>>
  /\ UNCHANGED nonFwdVars

\* the 'data' event of a local socket: socketToPeer.multiplexWrite(channelId, data)
LocalData(id) ==
  /\ ~fwdCrashed
  /\ local[id].readyState = "open"
  /\ nframes + Len(outbound) < MaxFrames
  /\ outbound' = Append(outbound, [channel |-> local[id].channel, socket |-> id])
  /\ UNCHANGED <<sockets, local, messagesFor, nlocal, nframes, inbound, fwdCrashed>>
  /\ UNCHANGED nonFwdVars

\* the local application or service closes: the socket is destroyed and its
\* readyState is 'closed'; the 'close' event follows in a later callback
LocalDestroyed(id) ==
  /\ ~fwdCrashed
  /\ local[id].readyState = "open"
  /\ local' = [local EXCEPT ![id].readyState = "closed"]
  /\ UNCHANGED <<sockets, messagesFor, nlocal, nframes, inbound, outbound, fwdCrashed>>
  /\ UNCHANGED nonFwdVars

\* the 'close' event: only accepted sockets have a listener, which does
\* delete sockets[channelId]
LocalClose(id) ==
  /\ ~fwdCrashed
  /\ local[id].kind # "none"
  /\ local[id].readyState = "closed"
  /\ ~local[id].closeEmitted
  /\ local' = [local EXCEPT ![id].closeEmitted = TRUE]
  /\ sockets' = IF local[id].kind = "accepted"
                  THEN [sockets EXCEPT ![local[id].channel] = 0]
                  ELSE sockets
  /\ UNCHANGED <<messagesFor, nlocal, nframes, inbound, outbound, fwdCrashed>>
  /\ UNCHANGED nonFwdVars

ForwardIdle ==
  /\ sockets = [c \in Channels |-> 0]
  /\ local = [i \in LocalIds |-> NoLocal]
  /\ messagesFor = [c \in Channels |-> <<>>]
  /\ nlocal = 0
  /\ nframes = 0
  /\ inbound = [c \in Channels |-> <<>>]
  /\ outbound = <<>>
  /\ fwdCrashed = FALSE

ForwardNext ==
  \/ \E c \in Channels : FwdMultiplexData(c)
  \/ \E i \in LocalIds : LocalReady(i)
  \/ \E i \in LocalIds : LocalConnectError(i)
  \/ \E c \in Channels : LocalAccept(c)
  \/ \E i \in LocalIds : LocalData(i)
  \/ \E i \in LocalIds : LocalDestroyed(i)
  \/ \E i \in LocalIds : LocalClose(i)

(***************************************************************************)
(* Two client processes and the server together (src/client.ts and         *)
(* src/index.ts), for the fallback to relayed mode.  The peers cannot      *)
(* reach each other: every dial of a race ends in an 'error' event.        *)
(***************************************************************************)
Peers == {1, 2}

\* the public endpoint of peer k's c-th connection to the server
PeerEndpoint(k, c) == Address(IF k = 1 THEN "5.5.5.1" ELSE "5.5.5.2", 6000 + c)

\* the server's socket of peer k's c-th connection, 0 before it is accepted
AcceptedAs(k, c) ==
  IF \E s \in 1..nsock : remote[s] = PeerEndpoint(k, c)
    THEN CHOOSE s \in 1..nsock : remote[s] = PeerEndpoint(k, c)
    ELSE 0

SocketOf(k) == AcceptedAs(k, peers[k].nconn)

\* a client process before its connect callback ran
NewPeer ==
  [socketToServer |-> "connecting", nconn |-> 1, connectCallbacks |-> <<FALSE>>,
   registersSent |-> <<>>, nread |-> 0, dataListener |-> TRUE, endListeners |-> 0,
   forwardedOn |-> <<>>, finSent |-> 0, rc |-> NoRace]

\* the server accepts the connection that peer k is opening; the FIN of the
\* peer's earlier connection, sent long before, has reached the server
RelayAccept(k) ==
  /\ peers[k].socketToServer = "connecting"
  /\ SocketOf(k) = 0
  /\ \A c \in 1..(peers[k].nconn - 1) : conn[AcceptedAs(k, c)] = "closed"
  /\ ConnectionHandler(PeerEndpoint(k, peers[k].nconn))

\* the connect callback of peer k's socketToServer: write the register message
PeerConnected(k) ==
  /\ peers[k].socketToServer = "connecting"
  /\ SocketOf(k) # 0
  /\ conn[SocketOf(k)] = "open"
  /\ peers' = [peers EXCEPT ![k].socketToServer = "connected",
                          ![k].registersSent = @ \o peers[k].connectCallbacks,
                          ![k].connectCallbacks = <<>>,
                          ![k].nread = 0]
  /\ UNCHANGED nonPeerVars

\* the register message of peer k's current connection reaches the server
RelayRegister(k) ==
  LET s == SocketOf(k) IN
  /\ peers[k].socketToServer = "connected"
  /\ Len(peers[k].registersSent) = peers[k].nconn
  /\ s # 0
  /\ clientAOriginDescriptor.socket # s
  /\ clientBOriginDescriptor.socket # s
  /\ DataHandler(s, Register(peers[k].registersSent[peers[k].nconn],
                             IF k = 1 THEN "10.0.0.1" ELSE "10.0.0.2",
                             4000 + peers[k].nconn))

\* handleDataFromServer of peer k on the next message the server wrote
PeerData(k) ==
  LET s == SocketOf(k) IN
  /\ peers[k].socketToServer = "connected"
  /\ s # 0
  /\ peers[k].nread < Len(written[s])
  /\ LET parsedData == written[s][peers[k].nread + 1]
         read == [peers EXCEPT ![k].nread = @ + 1]
     IN peers' =
          IF ~peers[k].dataListener THEN read
          ELSE IF parsedData.command = "tryConnectToPeer"
            THEN [read EXCEPT ![k].endListeners = @ + 1]
          ELSE IF parsedData.command = "initiateRelayedCommunication"
            THEN [read EXCEPT ![k].dataListener = FALSE,
                              ![k].forwardedOn = Append(@, ServerSocket)]
          ELSE read
  /\ UNCHANGED nonPeerVars

\* the 'end' event of peer k's socketToServer, after the server ended the
\* socket: the socket (allowHalfOpen is off) ends its side, and the listener
\* of a tryConnectToPeer begins the race
PeerServerEnd(k) ==
  LET s == SocketOf(k) IN
  /\ peers[k].socketToServer = "connected"
  /\ s # 0
  /\ ended[s]
  /\ peers[k].nread = Len(written[s])
  /\ peers[k].endListeners <= 1
  /\ peers[k].rc = NoRace
  /\ peers' = [peers EXCEPT ![k].socketToServer = "ended",
                          ![k].finSent = peers[k].nconn,
                          ![k].rc = IF peers[k].endListeners = 1
                                      THEN NewRace(4000 + peers[k].nconn) ELSE @]
  /\ UNCHANGED nonPeerVars

\* the FIN of a connection that peer k has ended reaches the server
RelayServerEnd(k) ==
  \E c \in 1..peers[k].finSent :
    /\ AcceptedAs(k, c) # 0
    /\ ServerEnd(AcceptedAs(k, c))

\* what peer k does once its race has settled
PeerAfterDial(k, rc) ==
  LET settled == SettleRace(rc)
      failed == peers[k].rc.outcome = "pending" /\ settled.outcome = "failed"
  IN peers' = [peers EXCEPT
       ![k].rc = settled,
       ![k].socketToServer = IF failed THEN "connecting" ELSE @,
       ![k].nconn = IF failed THEN @ + 1 ELSE @,
       ![k].connectCallbacks = IF failed THEN Append(@, TRUE) ELSE @]

\* the 'error' event of a dial of peer k
PeerDialError(k, net) ==
  /\ peers[k].rc.att[net].sock = "connecting"
  /\ PeerAfterDial(k, OnPeerError(peers[k].rc, net))
  /\ UNCHANGED nonPeerVars

\* the retry timer of a dial of peer k
PeerDialRetry(k, net) ==
  /\ peers[k].rc.att[net].sock = "waiting"
  /\ peers' = [peers EXCEPT ![k].rc = OnRetryTimer(peers[k].rc, net)]
  /\ UNCHANGED nonPeerVars

PeersIdle == peers = [k \in Peers |-> NewPeer]

RelayNext ==
  \/ \E k \in Peers : RelayAccept(k)
  \/ \E k \in Peers : PeerConnected(k)
  \/ \E k \in Peers : RelayRegister(k)
  \/ \E k \in Peers : PeerData(k)
  \/ \E k \in Peers : PeerServerEnd(k)
  \/ \E k \in Peers : RelayServerEnd(k)
  \/ \E k \in Peers, net \in Nets : PeerDialError(k, net)
  \/ \E k \in Peers, net \in Nets : PeerDialRetry(k, net)

(***************************************************************************)
(* Calls of Address.equals on their own (src/unnamed/part_004).            *)
(***************************************************************************)
AddressHosts == {UndefHost, "1.2.3.4", "9.8.7.6"}

AddressPorts == {UndefPort, 0, 5000, 5001}

Addresses == {Address(h, p) : h \in AddressHosts, p \in AddressPorts}

NoCall == [called |-> FALSE]

\* this.equals(other)
AddressEqualsCall(this, other) ==
  /\ equalsCall' = [called |-> TRUE, this |-> this, other |-> other,
                    threw |-> AddressEqualsThrows(this, other),
                    result |-> AddressEquals(this, other)]
  /\ UNCHANGED nonAddrVars

AddressIdle == equalsCall = NoCall

AddressNext == \E this \in Addresses, other \in Addresses \cup {Undefined} :
                 AddressEqualsCall(this, other)

(***************************************************************************)
(* socketToServer as a MultiplexSocket (src/client.ts): what the client    *)
(* does with the bytes it receives from the server, first the server's own *)
(* JSON messages, one per 'data' event, then, once the server has piped    *)
(* the two relayed sockets, whatever the peer sends.                       *)
(***************************************************************************)
\* JSON.stringify({command: 'tryConnectToPeer', name: 'A', peerName: 'B',
\*   public: {host: '1.2.3.4', port: 5001},
\*   private: {host: '10.0.0.2', port: 5001}}) as bytes
TryConnectToPeerText ==
  <<123, 34, 99, 111, 109, 109, 97, 110, 100, 34, 58, 34, 116, 114, 121, 67,
    111, 110, 110, 101, 99, 116, 84, 111, 80, 101, 101, 114, 34, 44, 34,
    110, 97, 109, 101, 34, 58, 34, 65, 34, 44, 34, 112, 101, 101, 114, 78,
    97, 109, 101, 34, 58, 34, 66, 34, 44, 34, 112, 117, 98, 108, 105, 99,
    34, 58, 123, 34, 104, 111, 115, 116, 34, 58, 34, 49, 46, 50, 46, 51, 46,
    52, 34, 44, 34, 112, 111, 114, 116, 34, 58, 53, 48, 48, 49, 125, 44, 34,
    112, 114, 105, 118, 97, 116, 101, 34, 58, 123, 34, 104, 111, 115, 116,
    34, 58, 34, 49, 48, 46, 48, 46, 48, 46, 50, 34, 44, 34, 112, 111, 114,
    116, 34, 58, 53, 48, 48, 49, 125, 125>>

\* JSON.stringify({command: 'initiateRelayedCommunication', name: 'A',
\*   peerName: 'B'}) as bytes
InitiateRelayedCommunicationText ==
  <<123, 34, 99, 111, 109, 109, 97, 110, 100, 34, 58, 34, 105, 110, 105,
    116, 105, 97, 116, 101, 82, 101, 108, 97, 121, 101, 100, 67, 111, 109,
    109, 117, 110, 105, 99, 97, 116, 105, 111, 110, 34, 44, 34, 110, 97,
    109, 101, 34, 58, 34, 65, 34, 44, 34, 112, 101, 101, 114, 78, 97, 109,
    101, 34, 58, 34, 66, 34, 125>>

\* parsedData?.command after JSON.parse(data): of the chunks that arrive here
\* only the two texts above are JSON texts of an object with a command (a
\* frame starts with a zero-padded number, which JSON does not allow)
CommandOf(data) ==
  IF data = TryConnectToPeerText THEN "tryConnectToPeer"
  ELSE IF data = InitiateRelayedCommunicationText THEN "initiateRelayedCommunication"
  ELSE "none"

\* the frame multiplexWrite puts on the wire for channelIdAndData
FrameOf(message) ==
  Rjust(DecStr(Len(message)), maxBufferSizeDigits, 48).str \o message

ValidFrame == FrameOf(Uuid(97) \o <<49, 48>>)

\* a frame whose payload is the text of a control message, in two chunks:
\* the length and the channel id, then the payload
JsonFrame == FrameOf(Uuid(98) \o TryConnectToPeerText)
JsonFrameHead == SubSeq(JsonFrame, 1, maxBufferSizeDigits + ChannelIdBytes)
JsonFramePayload ==
  SubSeq(JsonFrame, maxBufferSizeDigits + ChannelIdBytes + 1, Len(JsonFrame))

\* a frame that declares two bytes, less than a channel id
ShortFrame == FrameOf(<<97, 98>>)

\* the frame of ValidFrame's message with its length padded with spaces
SpacePaddedFrame ==
  Rjust_Spaces(DecStr(ChannelIdBytes + 2), maxBufferSizeDigits, 48).str
    \o Uuid(97) \o <<49, 48>>

\* fourteen bytes or more that do not start with a number
NotAFrame == [i \in 1..(maxBufferSizeDigits + 2) |-> 120]

\* two frames and the first byte of a third in one chunk
CoalescedFrames == ShortFrame \o ValidFrame \o <<48>>

\* what the server writes itself, one message per 'data' event
ServerMessages == {TryConnectToPeerText, InitiateRelayedCommunicationText}

\* what arrives through the pipe of the relay
PeerChunks ==
  {ValidFrame, JsonFrameHead, JsonFramePayload, ShortFrame, NotAFrame, SpacePaddedFrame,
   CoalescedFrames}

NoParse == [input |-> <<>>, events |-> <<>>, buffer |-> <<>>]

\* MultiplexSocket.flush
Flush_KeepsBuffer(sock) == [sock EXCEPT !.messageQueue = <<>>]

Flush(sock) == [sock EXCEPT !.buffer = <<>>, !.messageQueue = <<>>]

\* the 'data' listener of the MultiplexSocket constructor on socketToServer
MultiplexOnData(sock, data) ==
  LET input == sock.buffer \o data
      r == MuxOnData(sock.buffer, data)
  IN [sock EXCEPT !.buffer = r.buffer,
                  !.events = @ \o r.events,
                  !.lastParse = [input |-> input, events |-> r.events,
                                 buffer |-> r.buffer]]

\* handleDataFromServer: tryConnectToPeer registers the 'end' listener of the
\* race dial; initiateRelayedCommunication flushes, removes this listener and
\* emits socketReadyForPortForwarding with socketToServer
HandleDataFromServer(sock, data) ==
  LET command == CommandOf(data)
  IN IF command = "tryConnectToPeer"
       THEN [sock EXCEPT !.commands = Append(@, command)]
     ELSE IF command = "initiateRelayedCommunication"
       THEN [Flush(sock) EXCEPT !.commands = Append(@, command),
                                !.flushedAt = Len(sock.received),
                                !.handleDataFromServer = FALSE,
                                !.forwarding = TRUE]
     ELSE sock

\* a 'data' event of socketToServer: its listeners in the order in which
\* they were registered
SocketToServerOnData(sock, data) ==
  LET arrived == [sock EXCEPT !.received = Append(@, data)]
      parsed == MultiplexOnData(arrived, data)
  IN IF sock.handleDataFromServer THEN HandleDataFromServer(parsed, data)
     ELSE parsed

\* a message of the server arrives
ControlMessage(data) ==
  /\ ~relaySocket.piped
  /\ Len(relaySocket.received) < MaxReads
  /\ relaySocket' =
       [SocketToServerOnData(relaySocket, data)
          EXCEPT !.piped = (data = InitiateRelayedCommunicationText)]
  /\ UNCHANGED nonCtlVars

\* bytes of the peer arrive through the server's pipe
RelayedData(data) ==
  /\ relaySocket.piped
  /\ Len(relaySocket.received) < MaxReads
  /\ relaySocket' = SocketToServerOnData(relaySocket, data)
  /\ UNCHANGED nonCtlVars

ControlIdle ==
  relaySocket = [buffer |-> <<>>, messageQueue |-> <<>>,
                 handleDataFromServer |-> TRUE, forwarding |-> FALSE,
                 piped |-> FALSE, received |-> <<>>, events |-> <<>>,
                 commands |-> <<>>, flushedAt |-> 0, lastParse |-> NoParse]

ControlNext ==
  \/ \E data \in ServerMessages : ControlMessage(data)
  \/ \E data \in PeerChunks : RelayedData(data)

(***************************************************************************)
(* Two client processes that forward over their peer connection            *)
(* (forwardPortThroughSocket on either side, src/client.ts).  Each client  *)
(* listens on its forward port and nothing else does, so a socket dialed   *)
(* with createConnection(portToForward) reaches the client's own listener. *)
(***************************************************************************)
TunnelClients == {1, 2}

OtherClient(c) == 3 - c

\* channel ids are the uuids, in the order randomUUID() returned them
Uuids == 1..MaxUuid

\* an accepted socket per uuid and at most one dialed socket for each
TunnelSockIds == 1..(2 * MaxUuid)

NoTunnelSocket ==
  [client |-> 0, kind |-> "none", readyState |-> "closed", channel |-> 0,
   partner |-> 0, incoming |-> <<>>, written |-> <<>>]

\* sockets of the listeners, those in the backlog included
AcceptedCount ==
  Cardinality({i \in TunnelSockIds : tunnel.local[i].kind = "accepted"})

\* socket.write(message): the bytes reach the other end of the local
\* connection (partner 0 is the application)
TunnelWrite(socks, id, message) ==
  LET other == socks[id].partner
      wrote == [socks EXCEPT ![id].written = Append(@, message)]
  IN IF other = 0 THEN wrote
     ELSE [wrote EXCEPT ![other].incoming = Append(@, message)]

RECURSIVE TunnelWriteAll(_, _, _)
TunnelWriteAll(socks, id, queue) ==
  IF queue = <<>> THEN socks
  ELSE TunnelWriteAll(TunnelWrite(socks, id, Head(queue)), id, Tail(queue))

\* an application connects to the forward port of client c
AppConnect(c) ==
  /\ tunnel.napps < MaxAppChunks
  /\ AcceptedCount < MaxUuid
  /\ tunnel' = [tunnel EXCEPT
       !.napps = @ + 1,
       !.nlocal = @ + 1,
       !.local[tunnel.nlocal + 1] =
          [client |-> c, kind |-> "accepted", readyState |-> "pending",
           channel |-> 0, partner |-> 0, incoming |-> <<>>, written |-> <<>>]]
  /\ UNCHANGED nonTunnelVars

\* the application writes one chunk into its connection
AppWrite(id) ==
  /\ tunnel.local[id].kind = "accepted"
  /\ tunnel.local[id].partner = 0
  /\ tunnel.local[id].incoming = <<>>
  /\ tunnel.nchunks < MaxAppChunks
  /\ tunnel' = [tunnel EXCEPT
       !.nchunks = @ + 1,
       !.local[id].incoming = Append(@, tunnel.nchunks + 1)]
  /\ UNCHANGED nonTunnelVars

\* createServer((localSocketToServer) => ...): the listener's callback for a
\* connection in its backlog, made by an application or by the client's own
\* createConnection
TunnelAccept(id) ==
  /\ tunnel.local[id].kind = "accepted"
  /\ tunnel.local[id].readyState = "pending"
  /\ tunnel.nuuid < MaxUuid
  /\ LET channelId == tunnel.nuuid + 1
         c == tunnel.local[id].client
     IN tunnel' = [tunnel EXCEPT
          !.nuuid = channelId,
          !.sockets[c][channelId] = id,
          !.local[id].channel = channelId,
          !.local[id].readyState = "open"]
  /\ UNCHANGED nonTunnelVars

\* the 'data' event of a local socket, accepted or dialed:
\* socketToPeer.multiplexWrite(channelId, data); the frame travels to the peer
TunnelLocalData(id) ==
  /\ tunnel.local[id].kind # "none"
  /\ tunnel.local[id].readyState = "open"
  /\ tunnel.local[id].incoming # <<>>
  /\ LET c == tunnel.local[id].client
         frame == [channel |-> tunnel.local[id].channel,
                   payload |-> Head(tunnel.local[id].incoming),
                   socket |-> id]
     IN tunnel' = [tunnel EXCEPT
          !.local[id].incoming = Tail(@),
          !.wire[OtherClient(c)] = Append(@, frame),
          !.sent = Append(@, frame)]
  /\ UNCHANGED nonTunnelVars

\* socketToPeer.on('multiplex-data', ...) of client c for the next frame that
\* arrives: dial the forward port when the table has no entry, then write or
\* queue the payload
TunnelMultiplexData(c) ==
  /\ tunnel.wire[c] # <<>>
  /\ LET frame == Head(tunnel.wire[c])
         channelId == frame.channel
         dial == tunnel.sockets[c][channelId] = 0
         id == IF dial THEN tunnel.nlocal + 1 ELSE tunnel.sockets[c][channelId]
         socks == IF dial
                    THEN [tunnel.local EXCEPT
                            ![id] = [client |-> c, kind |-> "dialed",
                                     readyState |-> "opening", channel |-> channelId,
                                     partner |-> id + 1, incoming |-> <<>>,
                                     written |-> <<>>],
                            ![id + 1] = [client |-> c, kind |-> "accepted",
                                         readyState |-> "pending", channel |-> 0,
                                         partner |-> id, incoming |-> <<>>,
                                         written |-> <<>>]]
                    ELSE tunnel.local
     IN /\ dial => AcceptedCount < MaxUuid
        /\ tunnel' = [tunnel EXCEPT
             !.wire[c] = Tail(@),
             !.nlocal = IF dial THEN @ + 2 ELSE @,
             !.sockets[c][channelId] = id,
             !.local = IF Writable(socks[id])
                         THEN TunnelWrite(socks, id, frame.payload)
                         ELSE socks,
             !.messagesFor[c][channelId] =
                IF Writable(socks[id]) THEN @ ELSE Append(@, frame.payload)]
  /\ UNCHANGED nonTunnelVars

\* the 'ready' event of a dialed socket: write and delete messagesFor[channelId]
TunnelReady(id) ==
  /\ tunnel.local[id].kind = "dialed"
  /\ tunnel.local[id].readyState = "opening"
  /\ LET c == tunnel.local[id].client
         channelId == tunnel.local[id].channel
         opened == [tunnel.local EXCEPT ![id].readyState = "open"]
     IN tunnel' = [tunnel EXCEPT
          !.local = TunnelWriteAll(opened, id, Drain(tunnel.messagesFor[c][channelId])),
          !.messagesFor[c][channelId] = <<>>]
  /\ UNCHANGED nonTunnelVars

TunnelIdle ==
  tunnel = [sockets |-> [c \in TunnelClients |-> [u \in Uuids |-> 0]],
            messagesFor |-> [c \in TunnelClients |-> [u \in Uuids |-> <<>>]],
            local |-> [i \in TunnelSockIds |-> NoTunnelSocket],
            wire |-> [c \in TunnelClients |-> <<>>],
            sent |-> <<>>,
            nuuid |-> 0, nlocal |-> 0, napps |-> 0, nchunks |-> 0]

TunnelNext ==
  \/ \E c \in TunnelClients : AppConnect(c)
  \/ \E i \in TunnelSockIds : AppWrite(i)
  \/ \E i \in TunnelSockIds : TunnelAccept(i)
  \/ \E i \in TunnelSockIds : TunnelLocalData(i)
  \/ \E c \in TunnelClients : TunnelMultiplexData(c)
  \/ \E i \in TunnelSockIds : TunnelReady(i)

(***************************************************************************)
(* The specifications.                                                     *)
(***************************************************************************)
Init ==
  /\ ServerIdle
  /\ MuxIdle
  /\ ClientIdle
  /\ ForwardIdle
  /\ PeersIdle
  /\ AddressIdle
  /\ ControlIdle
  /\ TunnelIdle

SpecServer == Init /\ [][ServerNext]_vars

SpecMux == Init /\ [][MuxNext]_vars

SpecRace == Init /\ [][ClientNext]_vars

\* every connect() is answered by 'connect' or 'error', every retry timer
\* fires, and the reconnection to the server is answered
SpecRaceFair ==
  /\ Init
  /\ [][ClientNext]_vars
  /\ WF_vars(\E r \in Races, net \in Nets :
               PeerConnect(r, net) \/ PeerError(r, net) \/ PeerRetryTimer(r, net))
  /\ WF_vars(ClientConnected)

SpecForward == Init /\ [][ForwardNext]_vars

SpecAddress == Init /\ [][AddressNext]_vars

SpecControl == Init /\ [][ControlNext]_vars

SpecTunnel == Init /\ [][TunnelNext]_vars

\* the event loops keep running: a handler that can run does run
SpecRelay == Init /\ [][RelayNext]_vars /\ WF_vars(RelayNext)

(***************************************************************************)
(* Claims about the rendez-vous server, checked under SpecServer.          *)
(***************************************************************************)
IsDescriptor(d) ==
  /\ DOMAIN d = {"socket", "public", "private"}
  /\ d.socket \in Socks
  /\ d.public \in Endpoints

\* the last handler was a register on a socket whose endpoint was not in the pair
\* and that filled the second slot
RegisterCompletedPair ==
  /\ lastEvt.kind = "data"
  /\ lastEvt.outcome \in {"slotA", "slotB"}
  /\ Complete(clientAOriginDescriptor, clientBOriginDescriptor)

\* C1: in every reachable state of the server each slot is empty or holds one
\* descriptor, and when both slots are filled their public endpoints differ.
C1_PairHoldsDistinctEndpoints ==
  /\ clientAOriginDescriptor = NoDescriptor \/ IsDescriptor(clientAOriginDescriptor)
  /\ clientBOriginDescriptor = NoDescriptor \/ IsDescriptor(clientBOriginDescriptor)
  /\ Complete(clientAOriginDescriptor, clientBOriginDescriptor)
       => /\ clientAOriginDescriptor.public.host # clientBOriginDescriptor.public.host
             \/ clientAOriginDescriptor.public.port # clientBOriginDescriptor.public.port
          /\ clientAOriginDescriptor.socket # clientBOriginDescriptor.socket

\* both slots filled, slot A refilled by a later socket after an end event
\* emptied it, and a client that is in the pair registered once more
C1_Witness ==
  /\ Complete(clientAOriginDescriptor, clientBOriginDescriptor)
  /\ clientAOriginDescriptor.socket > clientBOriginDescriptor.socket
  /\ lastEvt.kind = "data"
  /\ lastEvt.outcome = "already"

\* C2: when a register without relay completes the pair, the server writes one
\* tryConnectToPeer to the socket of slot A (name A, peer B, endpoints of B) and
\* one to the socket of slot B (name B, peer A, endpoints of A), and ends the
\* two sockets only after both writes.
C2_TryConnectWrittenThenEnded ==
  (RegisterCompletedPair /\ ~lastEvt.chunk.relay) =>
    LET a == clientAOriginDescriptor
        b == clientBOriginDescriptor
    IN /\ lastEvt.ops = << Op("write", a.socket, TryConnectToPeer("A", "B", b)),
                           Op("write", b.socket, TryConnectToPeer("B", "A", a)),
                           Op("end", a.socket, NoArg), Op("end", b.socket, NoArg) >>
       \* neither socket had been ended before it was written to
       /\ ~lastEvt.writeAfterEnd
       /\ Len(written[a.socket]) > 0
       /\ written[a.socket][Len(written[a.socket])] = TryConnectToPeer("A", "B", b)
       /\ Len(written[b.socket]) > 0
       /\ written[b.socket][Len(written[b.socket])] = TryConnectToPeer("B", "A", a)
       /\ ended[a.socket] /\ ended[b.socket]

\* the register of the last handler carried a public endpoint held by a slot
RegisterOfHeldEndpoint ==
  /\ lastEvt.kind = "data"
  /\ lastEvt.chunk \in RegisterMsgs
  /\ ~FalsyHost(lastEvt.chunk.localAddress) /\ ~FalsyPort(lastEvt.chunk.localPort)
  /\ \/ lastEvt.a # NoDescriptor /\ lastEvt.a.public = remote[lastEvt.sock]
     \/ lastEvt.b # NoDescriptor /\ lastEvt.b.public = remote[lastEvt.sock]

\* C7: a register whose public endpoint is the one slot A or slot B already
\* holds leaves both slots exactly as they were.
C7_DuplicateRegisterIsIdempotent ==
  RegisterOfHeldEndpoint =>
    /\ clientAOriginDescriptor = lastEvt.a
    /\ clientBOriginDescriptor = lastEvt.b

\* the client of slot A registered a second time while slot B was empty
C7_Witness ==
  /\ RegisterOfHeldEndpoint
  /\ lastEvt.a # NoDescriptor
  /\ lastEvt.b = NoDescriptor
  /\ clientBOriginDescriptor = NoDescriptor

\* C8: when both slots are filled and a client with a third public endpoint
\* registers, the capacity error leaves the pair alone: the slots keep their
\* descriptors, nothing is written to the two registered sockets and neither
\* of them is closed.
C8_ThirdClientLeavesPairAlone ==
  [][ (/\ lastEvt'.kind = "data"
       /\ lastEvt'.outcome = "throwFull"
       /\ lastEvt' # lastEvt)
      => /\ clientAOriginDescriptor' = clientAOriginDescriptor
         /\ clientBOriginDescriptor' = clientBOriginDescriptor
         /\ written' = written
         /\ ended' = ended
         /\ conn'[clientAOriginDescriptor.socket] = conn[clientAOriginDescriptor.socket]
         /\ conn'[clientBOriginDescriptor.socket] = conn[clientBOriginDescriptor.socket]
    ]_vars

\* C9: when a register with relay completes the pair, the server writes
\* initiateRelayedCommunication to both sockets (A/B and B/A) and pipes them;
\* from then on a chunk received on one is forwarded unchanged and in order to
\* the other, and is not parsed as a command.
C9_RelayNotifiesAndPipes ==
  /\ (RegisterCompletedPair /\ lastEvt.chunk.relay) =>
       LET a == clientAOriginDescriptor
           b == clientBOriginDescriptor
       IN /\ ~lastEvt.writeAfterEnd
          /\ written[a.socket] # <<>> /\ written[b.socket] # <<>>
          /\ written[a.socket][Len(written[a.socket])] = InitiateRelayedCommunication("A", "B")
          /\ written[b.socket][Len(written[b.socket])] = InitiateRelayedCommunication("B", "A")
          /\ pipeTo[a.socket] = b.socket /\ pipeTo[b.socket] = a.socket
          /\ ~listening[a.socket] /\ ~listening[b.socket]
  /\ \A s \in Socks :
       (pipeTo[s] # 0 /\ lastEvt.kind = "pipe" /\ lastEvt.sock = s) =>
          /\ Len(written[pipeTo[s]]) = 1 + Len(received[s])
          /\ \A i \in 1..Len(received[s]) : written[pipeTo[s]][i + 1] = received[s][i]

(***************************************************************************)
(* Claims about the multiplex channel, checked under SpecMux.              *)
(***************************************************************************)
\* the number of frames that lie wholly within the first n bytes of the stream
RECURSIVE CompleteFrames(_, _)
CompleteFrames(fs, n) ==
  IF fs = <<>> \/ Len(Head(fs)) > n THEN 0
  ELSE 1 + CompleteFrames(Tail(fs), n - Len(Head(fs)))

\* the decimal digit of n that has weight 10^k
RECURSIVE DigitAt(_, _)
DigitAt(n, k) == IF k = 0 THEN n % 10 ELSE DigitAt(n \div 10, k - 1)

C4_FrameRoundTrip ==
  \A i \in 1..Len(frames) :
    EmitMessagesFromBuffer(frames[i]) = [events |-> <<calls[i]>>, buffer |-> <<>>]

\* a frame for the id with a two-byte character and a payload holding digits
C4_Witness ==
  \E i \in 1..Len(frames) :
    /\ i <= Len(calls)
    /\ calls[i].channelId = TwoByteId
    /\ calls[i].message # <<>>

\* C5: however the stream is cut into chunks, the events emitted are those of
\* the bytes read so far arriving as one chunk, and a frame is dispatched only
\* once all of its payload is buffered.
C5_ChunkingDoesNotMatter ==
  LET whole == EmitMessagesFromBuffer(SubSeq(Stream, 1, nrecv))
  IN /\ events = whole.events
     /\ buffer = whole.buffer
     /\ Len(events) = CompleteFrames(frames, nrecv)

\* one frame dispatched, the next one's length prefix and part of its payload
\* buffered and not dispatched
C5_Witness ==
  /\ Len(events) = 1
  /\ Len(buffer) > maxBufferSizeDigits + ChannelIdBytes
  /\ nrecv < Len(Stream)

ConnectedNets(r) == {n \in Nets : race[r].att[n].sock = "connected"}

ForwardedOfRace(r) == SelectSeq(forwardedOn, LAMBDA s : s.race = r)

\* C10: in a race dial where at least one attempt connected, port forwarding
\* was started exactly once, on the socket of the attempt that connected
\* first; that socket is the only one of the race that is open, and the other
\* attempt's socket, if it connected too, has been destroyed.
C10_RaceKeepsFirstConnected ==
  \A r \in Races :
    (\E n \in Nets : race[r].att[n].promise = "fulfilled") =>
      /\ race[r].first \in Nets
      /\ ForwardedOfRace(r) = <<PeerSocket(r, race[r].first)>>
      /\ ConnectedNets(r) = {race[r].first}
      /\ race[r].att[Other(race[r].first)].promise = "fulfilled"
           => race[r].att[Other(race[r].first)].sock = "destroyed"

\* both attempts of a race connected, after the first of them had retried
C10_Witness ==
  \E r \in Races :
    /\ \A n \in Nets : race[r].att[n].promise = "fulfilled"
    /\ race[r].att[race[r].first].executionCount > 0
    /\ race[r].att[Other(race[r].first)].sock = "destroyed"
    /\ ForwardedOfRace(r) = <<PeerSocket(r, race[r].first)>>

\* the number of relay: true flags in a sequence of registrations
RECURSIVE RelayCount(_)
RelayCount(flags) ==
  IF flags = <<>> THEN 0
  ELSE (IF Head(flags) THEN 1 ELSE 0) + RelayCount(Tail(flags))

RacesBothFailed == {r \in Races : \A n \in Nets : race[r].att[n].promise = "rejected"}

RacesOneConnected == {r \in Races : \E n \in Nets : race[r].att[n].promise = "fulfilled"}

\* C11: the client has begun one reconnection that registers with relay=true
\* for every race dial whose public and private attempt both failed and for
\* no other race (none for a race in which an attempt connected, none for a
\* race still undecided); the registration written on the initial connection
\* has relay=false and every later one has relay=true.
C11_RelayRegistrationIffBothFailed ==
  /\ RelayCount(registersSent \o connectCallbacks) = Cardinality(RacesBothFailed)
  /\ RacesBothFailed \cap RacesOneConnected = {}
  /\ \A i \in 1..Len(registersSent) : registersSent[i] = (i > 1)
  /\ registersSent = <<>> => connectCallbacks = <<FALSE>>

\* a race failed and its relay registration was written, a later race of the
\* same process was won and added none
C11_Witness ==
  /\ registersSent = <<FALSE, TRUE>>
  /\ connectCallbacks = <<>>
  /\ Cardinality(RacesBothFailed) = 1
  /\ Cardinality(RacesOneConnected) = 1

Begun(r) == race[r].outcome # "unused"

\* C12: a dial toward the peer is started only by the step in which the 'end'
\* event of the server socket fires; both attempts of the race then dial from
\* a local port that a tryConnectToPeer captured from the connection to the
\* server, and every retry of an attempt keeps that port.
C12_DialsOnlyAfterServerEnd ==
  [][\A r \in Races :
       /\ (~Begun(r) /\ race'[r].outcome # "unused") =>
            /\ socketToServer = "connected" /\ socketToServer' = "ended"
            /\ endListeners # <<>>
            /\ \E i \in 1..Len(endListeners) :
                 /\ endListeners[i] \in 1..socketLocalPort
                 /\ \A n \in Nets :
                      /\ race'[r].att[n].sock = "connecting"
                      /\ race'[r].att[n].localPort = endListeners[i]
       /\ Begun(r) =>
            \A n \in Nets : race'[r].att[n].localPort = race[r].att[n].localPort
       /\ ~Begun(r) =>
            \A n \in Nets : race[r].att[n].sock = "none"]_vars

\* a race was begun at the end of the first connection and an attempt is
\* dialing again, after a retry, from the port of that connection
C12_Witness ==
  /\ socketToServer = "ended"
  /\ socketLocalPort = 1
  /\ \E n \in Nets :
       /\ race[1].att[n].sock = "connecting"
       /\ race[1].att[n].executionCount > 0
       /\ race[1].att[n].localPort = 1

(***************************************************************************)
(* Claims about port forwarding, checked under SpecForward.                *)
(***************************************************************************)
\* payloads are numbered by the receipt of their frame
InReceiptOrder(s) == \A i, j \in 1..Len(s) : i < j => s[i] < s[j]

\* C13: for every dialed local socket, the payloads written to it are in the
\* order their frames were received; nothing is written before the ready
\* event, the pending queue is kept in receipt order and drained at most once
\* (at the ready event, never while the socket is still opening), and a
\* writable socket has no pending payload left that a later write could
\* overtake.
C13_DialedSocketGetsPayloadsInOrder ==
  \A i \in LocalIds :
    local[i].kind = "dialed" =>
      /\ InReceiptOrder(local[i].written)
      /\ InReceiptOrder(local[i].written \o messagesFor[local[i].channel])
      /\ local[i].drains <= 1
      /\ local[i].readyState = "opening" =>
           local[i].written = <<>> /\ local[i].drains = 0
      /\ local[i].readyState = "open" =>
           local[i].drains = 1 /\ messagesFor[local[i].channel] = <<>>

\* two payloads were queued and drained at ready, a third was written after
C13_Witness ==
  \E i \in LocalIds :
    /\ local[i].kind = "dialed"
    /\ local[i].readyState = "open"
    /\ local[i].drains = 1
    /\ local[i].written = <<1, 2, 3>>

Elements(s) == {s[k] : k \in 1..Len(s)}

\* C14: with several channels interleaved on the peer socket, every payload
\* written to a local socket was received in a frame carrying the channel id
\* that socket is stored under, no payload is written to two sockets or
\* twice, and each socket gets its payloads in the order of their frames.
C14_PayloadsReachOnlyTheirChannel ==
  /\ \A i \in LocalIds :
       IF local[i].kind = "none" THEN local[i].written = <<>>
       ELSE /\ Elements(local[i].written) \subseteq Elements(inbound[local[i].channel])
            /\ InReceiptOrder(local[i].written)
  /\ \A i, j \in LocalIds :
       i # j => Elements(local[i].written) \cap Elements(local[j].written) = {}

\* frames of two channels alternated and each local socket got its own
C14_Witness ==
  \E i, j \in LocalIds :
    /\ local[i].channel # local[j].channel
    /\ local[i].written = <<1, 3>>
    /\ local[j].written = <<2>>

(***************************************************************************)
(* Claims about the fallback to relayed mode, checked under SpecRelay.     *)
(***************************************************************************)
BothRacesFailed == \A k \in Peers : peers[k].rc.outcome = "failed"

\* both clients registered again with relay=true, the server piped the two
\* new control sockets into each other, both clients forward over them
RelayEstablished ==
  /\ \A k \in Peers : peers[k].registersSent = <<FALSE, TRUE>>
  /\ \A k \in Peers : ServerSocket \in {peers[k].forwardedOn[i] : i \in 1..Len(peers[k].forwardedOn)}
  /\ AcceptedAs(1, 2) # 0 /\ AcceptedAs(2, 2) # 0
  /\ pipeTo[AcceptedAs(1, 2)] = AcceptedAs(2, 2)
  /\ pipeTo[AcceptedAs(2, 2)] = AcceptedAs(1, 2)

\* no handler of the server or of a client can run any more
Quiescent == ~ENABLED RelayNext

\* C15: once the public and the private dial of both paired clients have
\* failed until their retries were exhausted, the system does not come to
\* rest before both clients have registered again with relay=true, the
\* server has piped the two new control sockets, and both clients have
\* started port forwarding over their server socket (every run is finite
\* and handlers that can run do run, so this is the eventual outcome).
C15_RelayFallbackEndToEnd ==
  (BothRacesFailed /\ Quiescent) => RelayEstablished

(***************************************************************************)
(* Further claims about the server, checked under SpecServer.              *)
(***************************************************************************)
\* C16: right after the handler that broadcast tryConnectToPeer and called
\* clear(), both slots of the pair are empty (so that the next client to
\* register is placed in slot A).
C16_ClearEmptiesBothSlots ==
  (RegisterCompletedPair /\ ~lastEvt.chunk.relay) =>
    /\ clientAOriginDescriptor = NoDescriptor
    /\ clientBOriginDescriptor = NoDescriptor

\* C17: while a socket that the server put in relay mode is still held by the
\* pair, no register places a new client in a slot; in particular not in the
\* slot freed by the end of the other relayed socket.
C17_RelayedPairTakesNoRegistration ==
  [][ (/\ lastEvt'.kind = "data"
       /\ lastEvt' # lastEvt
       /\ lastEvt'.outcome \in {"slotA", "slotB"})
      => \A d \in {clientAOriginDescriptor, clientBOriginDescriptor} :
           d # NoDescriptor => listening[d.socket]
    ]_vars

\* C18: when a socket with remote endpoint E ends, the slot whose descriptor
\* has public endpoint E is empty afterwards and the other slot is as it
\* was; when no slot has public endpoint E both slots are as they were; the
\* server keeps running.
C18_EndRemovesOnlyMatchingSlot ==
  lastEvt.kind = "end" =>
    LET E == remote[lastEvt.sock]
        inA == lastEvt.a # NoDescriptor /\ lastEvt.a.public = E
        inB == lastEvt.b # NoDescriptor /\ lastEvt.b.public = E
    IN /\ ~crashed
       /\ ~(inA /\ inB)
       /\ inA => clientAOriginDescriptor = NoDescriptor
                 /\ clientBOriginDescriptor = lastEvt.b
       /\ inB => clientBOriginDescriptor = NoDescriptor
                 /\ clientAOriginDescriptor = lastEvt.a
       /\ (~inA /\ ~inB) => /\ clientAOriginDescriptor = lastEvt.a
                            /\ clientBOriginDescriptor = lastEvt.b

\* the socket of slot B ended while slot A was filled
C18_Witness ==
  /\ lastEvt.kind = "end"
  /\ lastEvt.b # NoDescriptor
  /\ lastEvt.b.public = remote[lastEvt.sock]
  /\ clientBOriginDescriptor = NoDescriptor
  /\ clientAOriginDescriptor # NoDescriptor

(***************************************************************************)
(* Claims about Address.equals, checked under SpecAddress.                 *)
(***************************************************************************)
\* C19: equals of two addresses is true exactly when the hosts are the same
\* and the ports are the same, so it is reflexive and symmetric; equals of
\* undefined is false (and does not throw) when the host is defined.
C19_AddressEquality ==
  equalsCall.called =>
    LET this == equalsCall.this
        other == equalsCall.other
    IN IF other \in Addresses
         THEN /\ ~equalsCall.threw
              /\ equalsCall.result = (this.host = other.host /\ this.port = other.port)
              /\ this = other => equalsCall.result
              /\ equalsCall.result = AddressEquals(other, this)
         ELSE this.host # UndefHost => (~equalsCall.threw /\ ~equalsCall.result)

\* two addresses with the same host and different ports were compared
C19_Witness ==
  /\ equalsCall.called
  /\ equalsCall.other \in Addresses
  /\ equalsCall.this.host = equalsCall.other.host
  /\ equalsCall.this.host # UndefHost
  /\ equalsCall.this.port # equalsCall.other.port
  /\ ~equalsCall.result

(***************************************************************************)
(* Further claims about the client's driver, checked under SpecRace.       *)
(***************************************************************************)
\* C20: the 'end' listener registered for a tryConnectToPeer is one-shot: the
\* client has begun at most one race dial for each tryConnectToPeer it
\* received, also after socketToServer was reconnected for relay and ended
\* a second time.
C20_EndListenerIsOneShot == nraces <= nintro

\* C21: an attempt whose cancellation token was triggered while it waits the
\* 1000 ms before a retry issues no further connect(): its socket does not go
\* from waiting to connecting.
C21_AbortedAttemptDoesNotRetry ==
  [][\A r \in Races, n \in Nets :
       (race[r].aborted[n] /\ race[r].att[n].sock = "waiting")
         => race'[r].att[n].sock # "connecting"]_vars

Settled(sock) == sock \in {"closed", "destroyed"}

\* C22: an attempt issues at most Timeout retries after its first connect;
\* the 'error' event that follows the last allowed retry leaves its socket
\* destroyed and its promise rejected, and a socket that failed terminally
\* is never connected again.
C22_RetriesBoundedThenTerminal ==
  [][\A r \in Races, n \in Nets :
       LET att == race[r].att[n]
           att2 == race'[r].att[n]
       IN /\ att.executionCount <= Timeout
          /\ att2.executionCount <= Timeout
          \* the step is not this socket's 'connect' event
          /\ (att.sock = "connecting" /\ att.executionCount = Timeout
                /\ att2.sock # "connecting" /\ att2.promise # "fulfilled")
               => /\ Settled(att2.sock)
                  /\ att2.promise = "rejected"
                  /\ att2.executionCount = Timeout
          /\ Settled(att.sock) => att2 = att]_vars

\* an attempt used all its retries and then failed terminally while the
\* other attempt of the race is still retrying
C22_Witness ==
  \E r \in Races, n \in Nets :
    /\ race[r].att[n].executionCount = Timeout
    /\ race[r].att[n].sock = "destroyed"
    /\ race[r].att[n].promise = "rejected"
    /\ race[r].att[Other(n)].sock = "waiting"
    /\ ~race[r].aborted[n]

\* a race dial is settled once forwarding was started on one of its peer
\* sockets, or it failed and no connect callback that registers with relay is
\* still waiting to run (its own was registered when it failed)
RaceSettled(r) ==
  \/ ForwardedOfRace(r) # <<>>
  \/ /\ race[r].outcome = "failed"
     /\ RelayCount(registersSent) > 0
     /\ RelayCount(connectCallbacks) = 0

C24_OneWriteInFlight ==
  [][/\ inFlight' <= 1
     /\ (inFlight' = 1) <=> sending'
     /\ (inFlight = 1 /\ Len(frames') > Len(frames))
          => /\ calls' = calls
             /\ Len(frames') = Len(frames) + 1
             /\ messageQueue # <<>>
             /\ frames'[Len(frames')] =
                  Rjust(DecStr(Len(Head(messageQueue))), maxBufferSizeDigits, 48).str
                    \o Head(messageQueue)]_vars

\* the second of two calls is being written, one write is in flight
C24_Witness ==
  /\ inFlight = 1
  /\ Len(frames) = 2
  /\ Len(calls) = 2

(***************************************************************************)
(* Claims about the receiving side of socketToServer, checked under        *)
(* SpecControl.                                                            *)
(***************************************************************************)
\* parseInt of the first fourteen bytes of a buffer
HeaderOf(input) == ParseInt(Utf8Decode(Subarray(input, 0, maxBufferSizeDigits)))

\* C25: when the first 14 bytes of the buffer do not parse as a number
\* (parseInt gives NaN), the call of emitMessagesFromBuffer emits no
\* multiplex-data event and returns the buffer it was given.
C25_UnparsableLengthConsumesNothing ==
  LET p == relaySocket.lastParse
  IN (Len(p.input) >= maxBufferSizeDigits /\ HeaderOf(p.input).nan)
       => /\ p.events = <<>>
          /\ p.buffer = p.input

\* forwarding runs on the socket, a frame was decoded earlier, and the bytes
\* now at the front of the buffer are no number
C25_Witness ==
  /\ relaySocket.forwarding
  /\ relaySocket.events # <<>>
  /\ Len(relaySocket.lastParse.input) > maxBufferSizeDigits
  /\ HeaderOf(relaySocket.lastParse.input).nan
  /\ relaySocket.buffer = relaySocket.lastParse.input

\* C26: a frame at the front of the buffer whose declared length N is less
\* than 36 and whose N bytes have arrived is skipped: the call emits and
\* returns what it emits and returns for the bytes that follow the frame.
C26_ShortFrameIsSkipped ==
  LET p == relaySocket.lastParse
      h == HeaderOf(p.input)
  IN (/\ Len(p.input) >= maxBufferSizeDigits
      /\ ~h.nan
      /\ h.val >= 0
      /\ h.val < ChannelIdBytes
      /\ Len(p.input) >= maxBufferSizeDigits + h.val)
       => LET rest == EmitMessagesFromBuffer(
                        Subarray(p.input, maxBufferSizeDigits + h.val, Len(p.input)))
          IN /\ p.events = rest.events
             /\ p.buffer = rest.buffer

\* the bytes that arrived after the flush
LateBytes(sock) == Flatten(SubSeq(sock.received, sock.flushedAt + 1, Len(sock.received)))

\* C27: the step that handles initiateRelayedCommunication leaves the receive
\* buffer and the outbound queue of socketToServer empty and the JSON handler
\* removed when forwarding starts on it; from then on the frames decoded and
\* the buffer are those of the bytes received after that message alone, and
\* no data is dispatched as a JSON command.
C27_FlushBeforeForwarding ==
  [][LET s == relaySocket
         s2 == relaySocket'
     IN /\ (~s.forwarding /\ s2.forwarding)
             => /\ s2.buffer = <<>>
                /\ s2.messageQueue = <<>>
                /\ ~s2.handleDataFromServer
        /\ s2.forwarding
             => /\ ~s2.handleDataFromServer
                /\ s2.events = EmitMessagesFromBuffer(LateBytes(s2)).events
                /\ s2.buffer = EmitMessagesFromBuffer(LateBytes(s2)).buffer
        /\ s.forwarding => s2.commands = s.commands]_vars

\* a tryConnectToPeer message and the initiateRelayedCommunication message
\* were handled, then a frame arrived whose payload, a chunk of its own, is
\* the text of a tryConnectToPeer message
C27_Witness ==
  /\ relaySocket.forwarding
  /\ relaySocket.commands = <<"tryConnectToPeer", "initiateRelayedCommunication">>
  /\ relaySocket.flushedAt = 2
  /\ Len(relaySocket.received) = 4
  /\ relaySocket.received[4] = TryConnectToPeerText
  /\ Len(relaySocket.events) = 1
  /\ relaySocket.events[1].message = TryConnectToPeerText
  /\ relaySocket.buffer = <<>>

(***************************************************************************)
(* Further claims about port forwarding, checked under SpecForward.        *)
(***************************************************************************)
\* what was written for a channel: the payloads written to the local sockets
\* that were stored under its id, one after the other
RECURSIVE WrittenUpTo(_, _)
WrittenUpTo(c, i) ==
  IF i = 0 THEN <<>>
  ELSE WrittenUpTo(c, i - 1)
         \o (IF local[i].kind # "none" /\ local[i].channel = c
               THEN local[i].written ELSE <<>>)

WrittenFor(c) == WrittenUpTo(c, MaxLocal)

\* C28: no payload is dropped or reordered: for every channel the payloads
\* received are, in order, those written to its local socket followed by
\* those in its pending queue (what was written is a prefix of what was
\* received); while the dialed socket is opening everything is pending,
\* and once it is ready nothing is pending: the ready step wrote the queue.
C28_NoInboundPayloadDropped ==
  /\ \A c \in Channels : inbound[c] = WrittenFor(c) \o messagesFor[c]
  /\ \A i \in LocalIds :
       local[i].kind = "dialed" =>
         /\ local[i].readyState = "opening" => local[i].written = <<>>
         /\ local[i].readyState = "open" => messagesFor[local[i].channel] = <<>>

\* two payloads waited for the dialed socket, were written when it became
\* ready, and a third was written directly
C28_Witness ==
  \E i \in LocalIds :
    /\ local[i].kind = "dialed"
    /\ local[i].readyState = "open"
    /\ local[i].drains = 1
    /\ inbound[local[i].channel] = <<1, 2, 3>>
    /\ local[i].written = <<1, 2, 3>>
    /\ messagesFor[local[i].channel] = <<>>

\* the channel of the frame received in a step, 0 when none was
FrameChannel(before, after) ==
  IF \E c \in Channels : after[c] # before[c]
    THEN CHOOSE c \in Channels : after[c] # before[c]
    ELSE 0

\* C29: a local socket is dialed only in the step that handles a frame whose
\* channel id has no entry in the table, and is stored under that id; a
\* frame for an id that has an entry dials nothing and leaves the table and
\* every socket's handlers as they are.
C29_DialOnlyForUnknownChannel ==
  [][LET c == FrameChannel(inbound, inbound')
     IN /\ \A i \in LocalIds :
             (local[i].kind = "none" /\ local'[i].kind = "dialed")
               => /\ c # 0
                  /\ sockets[c] = 0
                  /\ sockets'[c] = i
                  /\ local'[i].channel = c
        /\ (c # 0 /\ sockets[c] # 0)
             => /\ sockets' = sockets
                /\ nlocal' = nlocal
                /\ \A i \in LocalIds : local'[i].kind = local[i].kind
                                       /\ local'[i].channel = local[i].channel]_vars

\* three frames for one channel: one dialed socket
C29_Witness ==
  \E c \in Channels :
    /\ Len(inbound[c]) = 3
    /\ nlocal = 1
    /\ sockets[c] = 1
    /\ local[1].kind = "dialed"

\* C30: once the 'close' event of a local socket was handled, accepted or
\* dialed, the channel table has no entry that holds this socket.
C30_ClosedSocketLeavesTable ==
  \A i \in LocalIds :
    local[i].closeEmitted => sockets[local[i].channel] # i

\* C31: every frame sent for data read from a local socket carries the
\* channel id under which that socket is stored in the channel table, for a
\* dialed socket the id of the frame it was dialed for; and a frame that
\* arrives with the id of an accepted socket whose entry exists and which is
\* open is written to that socket, with no dial.
C31_FramesCarryTheSocketsChannelId ==
  [][/\ Len(outbound') > Len(outbound)
          => LET sent == outbound'[Len(outbound')]
             IN /\ Len(outbound') = Len(outbound) + 1
                /\ sockets[sent.channel] = sent.socket
                /\ local[sent.socket].channel = sent.channel
     /\ LET c == FrameChannel(inbound, inbound')
        IN (/\ c # 0
            /\ sockets[c] # 0
            /\ local[sockets[c]].kind = "accepted"
            /\ local[sockets[c]].readyState = "open")
             => /\ local'[sockets[c]].written =
                     Append(local[sockets[c]].written, nframes')
                /\ nlocal' = nlocal
                /\ sockets' = sockets]_vars

\* a dialed socket sent a reply under its channel id, and an accepted socket
\* got a frame of its channel written
C31_Witness ==
  \E i, j \in LocalIds :
    /\ local[i].kind = "dialed"
    /\ \E k \in 1..Len(outbound) :
         outbound[k] = [channel |-> local[i].channel, socket |-> i]
    /\ local[j].kind = "accepted"
    /\ local[j].written # <<>>
    /\ nlocal = 2

\* C32: when the connect of a dialed local socket fails the client keeps
\* running (the channel entry stays and later payloads of the channel are
\* queued): no failure of a dial ends the process.
C32_DialFailureKeepsClientRunning == ~fwdCrashed

(***************************************************************************)
(* Further claims about the rendez-vous server, checked under SpecServer.  *)
(***************************************************************************)
\* C33: a message that is no JSON, or that is JSON without the command
\* register, is a no-op: the handler leaves the pair as it was, writes to no
\* socket, ends none, and the connection and the server stay up.
C33_NonRegisterIsNoOp ==
  (lastEvt.kind = "data" /\ lastEvt.chunk \notin RegisterMsgs)
    => /\ lastEvt.outcome = "ignored"
       /\ lastEvt.ops = <<>>
       /\ clientAOriginDescriptor = lastEvt.a
       /\ clientBOriginDescriptor = lastEvt.b
       /\ ~crashed
       /\ conn[lastEvt.sock] = "open"

\* descriptors with an empty or missing field, of a socket that is not in
\* the pair
IncompleteDescriptors ==
  {OriginDescriptor(MaxConns + 1, Address(ph, pp), Address(lh, lp)) :
     ph \in {"7.7.7.7", "", UndefHost}, pp \in {7000, 0, UndefPort},
     lh \in {"10.0.0.1", "", UndefHost}, lp \in {4000, 0, UndefPort}}
    \ {OriginDescriptor(MaxConns + 1, Address("7.7.7.7", 7000), Address("10.0.0.1", 4000))}

\* C34: add() of a descriptor whose public host, public port, private host
\* or private port is empty or missing throws and leaves both slots as they
\* were, whatever the slots hold; a register message without localAddress or
\* localPort ends that way.
C34_IncompleteDescriptorIsRejected ==
  /\ \A d \in IncompleteDescriptors :
       ClientPairAdd(clientAOriginDescriptor, clientBOriginDescriptor, d)
         = [a |-> clientAOriginDescriptor, b |-> clientBOriginDescriptor,
            outcome |-> "throwIncomplete"]
  /\ (/\ lastEvt.kind = "data"
      /\ lastEvt.chunk \in RegisterMsgs
      /\ FalsyHost(lastEvt.chunk.localAddress) \/ FalsyPort(lastEvt.chunk.localPort))
       => /\ lastEvt.outcome = "throwIncomplete"
          /\ lastEvt.ops = <<>>
          /\ clientAOriginDescriptor = lastEvt.a
          /\ clientBOriginDescriptor = lastEvt.b

\* a register without localPort arrived while slot A was filled and slot B
\* empty
C34_Witness ==
  /\ lastEvt.kind = "data"
  /\ lastEvt.outcome = "throwIncomplete"
  /\ lastEvt.chunk = Register(FALSE, "10.0.0.1", UndefPort)
  /\ clientAOriginDescriptor # NoDescriptor
  /\ clientAOriginDescriptor.socket # lastEvt.sock
  /\ clientBOriginDescriptor = NoDescriptor

\* C35: the server introduces a pair only in the handler of the registration
\* that completes it, and the kind is that registration's relay flag alone:
\* both sockets of the pair then receive the same message,
\* initiateRelayedCommunication when the flag is set and tryConnectToPeer
\* otherwise (and then both are ended), whatever the first registrant asked.
C35_BothClientsGetTheSameIntroduction ==
  [][(/\ lastEvt' # lastEvt
      /\ lastEvt'.kind = "data"
      /\ lastEvt'.ops # <<>>)
       => LET a == clientAOriginDescriptor'
              b == clientBOriginDescriptor'
              kind == IF lastEvt'.chunk.relay THEN "initiateRelayedCommunication"
                      ELSE "tryConnectToPeer"
          IN /\ lastEvt'.outcome \in {"slotA", "slotB"}
             /\ \A s \in {a.socket, b.socket} :
                  /\ Len(written'[s]) = Len(written[s]) + 1
                  /\ written'[s][Len(written'[s])].command = kind
             /\ ~lastEvt'.chunk.relay => ended'[a.socket] /\ ended'[b.socket]]_vars

(***************************************************************************)
(* Further claims about MultiplexSocket, checked under SpecMux.            *)
(***************************************************************************)
\* C36: between handlers, when sending is false the messageQueue is empty
\* (flush keeps it so); hence a call of multiplexWrite that writes at once
\* finds no frame queued before it.
C36_IdleSocketHasEmptyQueue ==
  [][/\ ~sending' => messageQueue' = <<>>
     /\ ~sending' =>
          Flush([buffer |-> buffer', messageQueue |-> messageQueue']).messageQueue = <<>>
     /\ (calls' # calls /\ Len(frames') > Len(frames)) => messageQueue = <<>>]_vars

\* the queue was used and drained: both calls are written and the socket is
\* idle again
C36_Witness ==
  /\ ~sending
  /\ messageQueue = <<>>
  /\ Len(calls) = 2
  /\ Len(frames) = 2
  /\ inFlight = 0

(***************************************************************************)
(* Claims about two forwarding clients, checked under SpecTunnel.          *)
(***************************************************************************)
\* C37: with a listener on the forward port of both clients and no other
\* local service, a payload that a client delivered through a socket it
\* dialed is not sent back to the peer under a freshly allocated channel id:
\* every frame is sent for a connection of the application, and a chunk
\* creates one channel at its own client and none at the other.
C37_DeliveredPayloadIsNotSentBack ==
  /\ \A k \in 1..Len(tunnel.sent) :
       tunnel.local[tunnel.sent[k].socket].partner = 0
  /\ tunnel.nuuid <= tunnel.napps

(***************************************************************************)
(* Further claims about the rendez-vous server, checked under SpecServer.  *)
(***************************************************************************)
\* C38: no handler of the server writes to a control socket that the server
\* has ended, and each control socket is sent at most one introduction
\* (tryConnectToPeer or initiateRelayedCommunication), whatever registers
\* arrive, a repeated register on an ended socket included.
C38_NoWriteAfterEndOneIntroduction ==
  /\ lastEvt.kind = "data" => ~lastEvt.writeAfterEnd
  /\ \A s \in Socks : Len(written[s]) <= 1

(***************************************************************************)
(* Further claims about the client's driver, checked under SpecRace.       *)
(***************************************************************************)
\* C39: in one client process forwardPortThroughSocket is called at most
\* once, with a single peer socket, whatever the server sends, whenever the
\* server socket ends and however the dials turn out.
C39_ForwardingStartsAtMostOnce == Len(forwardedOn) <= 1

(***************************************************************************)
(* Further claims about the receive parser, checked under SpecControl.     *)
(***************************************************************************)
\* the events are the frames at the front of input, one after the other,
\* each of 14 + N bytes with N the number its first 14 bytes parse to, every
\* remainder strictly shorter, and buf is what is left after the last one
RECURSIVE ConsumesFramesFromFront(_, _, _)
ConsumesFramesFromFront(input, evts, buf) ==
  IF evts = <<>> THEN input = buf
  ELSE LET message == Utf8Encode(Head(evts).channelId) \o Head(evts).message
           N == Len(message)
           length == ParseInt(Utf8Decode(Subarray(input, 0, maxBufferSizeDigits)))
           rest == Subarray(input, maxBufferSizeDigits + N, Len(input))
       IN /\ Len(input) >= maxBufferSizeDigits + N
          /\ ~length.nan
          /\ length.val = N
          /\ Subarray(input, maxBufferSizeDigits, maxBufferSizeDigits + N) = message
          /\ Len(rest) < Len(input)
          /\ ConsumesFramesFromFront(rest, Tail(evts), buf)

\* C40: every call of the receive parser returns; each frame it emitted took
\* exactly 14 + N bytes from the front of the buffer, each recursive call
\* worked on a strictly shorter buffer, and the buffer returned is a suffix
\* of the buffer passed in.
C40_ParserConsumesFromTheFront ==
  LET p == relaySocket.lastParse
  IN /\ ConsumesFramesFromFront(p.input, p.events, p.buffer)
     /\ Len(p.buffer) <= Len(p.input)
     /\ p.buffer = Subarray(p.input, Len(p.input) - Len(p.buffer), Len(p.input))

\* one call emitted two frames and returned a non-empty remainder
C40_Witness ==
  /\ Len(relaySocket.lastParse.events) = 2
  /\ relaySocket.lastParse.buffer # <<>>
  /\ Len(relaySocket.lastParse.buffer) < Len(relaySocket.lastParse.input)

====
